---- MODULE Spec2Model ----
(***************************************************************************)
(* Template Generator service of ComposeGenie: the template rendering and  *)
(* variable-validation engine (TemplateService), the Template model's      *)
(* usage counter and the process-level rejection handler.                  *)
(***************************************************************************)
EXTENDS Integers, Sequences, FiniteSets, TLC

(***************************************************************************)
(* JavaScript values a caller can put into the variable map.               *)
(***************************************************************************)
Str(s) == [t |-> "string", s |-> s, n |-> 0]
Num(n) == [t |-> "number", s |-> "", n |-> n]
Bool(b) == [t |-> "boolean", s |-> IF b THEN "true" ELSE "false", n |-> 0]
NaNValue == [t |-> "NaN", s |-> "", n |-> 0]
EmptyArray == [t |-> "array", s |-> "", n |-> 0]
EmptyObject == [t |-> "object", s |-> "", n |-> 0]
Null == [t |-> "null", s |-> "", n |-> 0]

\* typeof value
TypeOf(value) ==
  CASE value.t = "string" -> "string"
    [] value.t \in {"number", "NaN"} -> "number"
    [] value.t = "boolean" -> "boolean"
    [] OTHER -> "object"

\* Array.isArray(value)
IsArray(value) == value.t = "array"

\* isNaN(value), for a value whose typeof is 'number'
IsNaN(value) == value.t = "NaN"

(***************************************************************************)
(* Optional fields (undefined or a value) are sets of at most one element. *)
(***************************************************************************)
Unset == {}
Some(x) == {x}
IsSet(o) == o # {}
Get(o) == CHOOSE x \in o : TRUE

\* truthiness of an optional number field: undefined and 0 are falsy
TruthyNum(o) == IsSet(o) /\ Get(o) # 0
\* truthiness of an optional string field: undefined and '' are falsy
TruthyStr(o) == IsSet(o) /\ Get(o) # ""

(***************************************************************************)
(* Strings and regular expressions.  A string is known by its characters;  *)
(* the patterns are the three kinds a template author can store: an        *)
(* anchored pattern, an unanchored one and one that is not a valid regular *)
(* expression.                                                             *)
(***************************************************************************)
Chars(s) ==
  CASE s = "" -> <<>>
    [] s = "v1" -> <<"v", "1">>
    [] s = "nginx" -> <<"n", "g", "i", "n", "x">>
    [] s = "latest" -> <<"l", "a", "t", "e", "s", "t">>

Lower == {"a", "e", "g", "i", "l", "n", "s", "t", "v", "x"}

PatternAnchored == "^[a-z]+$"
PatternSearch == "[a-z]+"
PatternBroken == "[a-z"

\* new RegExp(pattern) throws a SyntaxError
RegExpThrows(pattern) == pattern = PatternBroken

\* new RegExp(pattern).test(value): a search, anchored only where the
\* pattern itself says so
RegExpTest(pattern, s) ==
  LET cs == Chars(s) IN
  CASE pattern = PatternAnchored ->
         Len(cs) > 0 /\ \A i \in 1..Len(cs) : cs[i] \in Lower
    [] pattern = PatternSearch ->
         \E i \in 1..Len(cs) : cs[i] \in Lower

(***************************************************************************)
(* VariableSpec: one element of Template.variables.                        *)
(***************************************************************************)
NoValidation ==
  [pattern |-> Unset, minLength |-> Unset, maxLength |-> Unset,
   minimum |-> Unset, maximum |-> Unset, enum |-> Unset]

Variable(name, type, required, defaultValue, validation) ==
  [name |-> name, type |-> type, required |-> required,
   defaultValue |-> defaultValue, validation |-> validation]

\* variable.name in variables
In(name, variables) == name \in DOMAIN variables

\* Array.prototype.includes
Includes(list, x) == \E i \in 1..Len(list) : list[i] = x

Valid == [threw |-> FALSE, isValid |-> TRUE, message |-> ""]
Invalid(message) == [threw |-> FALSE, isValid |-> FALSE, message |-> message]
Threw(message) == [threw |-> TRUE, isValid |-> FALSE, message |-> message]

\* validateVariable with the number bounds guarded by truthiness, as the
\* length bounds are: validation.minimum && value < validation.minimum
validateVariable_TruthyBounds(variableConfig, value) ==
  LET type == variableConfig.type
      validation == variableConfig.validation
  IN
  CASE type = "string" ->
         IF TypeOf(value) # "string" THEN Invalid("Must be a string")
         ELSE IF TruthyNum(validation.minLength)
                 /\ Len(Chars(value.s)) < Get(validation.minLength)
           THEN Invalid("Must be at least minLength characters")
         ELSE IF TruthyNum(validation.maxLength)
                 /\ Len(Chars(value.s)) > Get(validation.maxLength)
           THEN Invalid("Must be no more than maxLength characters")
         ELSE IF TruthyStr(validation.pattern)
                 /\ RegExpThrows(Get(validation.pattern))
           THEN Threw("Invalid regular expression")
         ELSE IF TruthyStr(validation.pattern)
                 /\ ~RegExpTest(Get(validation.pattern), value.s)
           THEN Invalid("Invalid format")
         ELSE IF IsSet(validation.enum)
                 /\ ~Includes(Get(validation.enum), value.s)
           THEN Invalid("Must be one of: enum")
         ELSE Valid
    [] type = "number" ->
         IF TypeOf(value) # "number" \/ IsNaN(value)
           THEN Invalid("Must be a valid number")
         ELSE IF TruthyNum(validation.minimum) /\ value.n < Get(validation.minimum)
           THEN Invalid("Must be at least minimum")
         ELSE IF TruthyNum(validation.maximum) /\ value.n > Get(validation.maximum)
           THEN Invalid("Must be no more than maximum")
         ELSE Valid
    [] type = "boolean" ->
         IF TypeOf(value) # "boolean" THEN Invalid("Must be true or false")
         ELSE Valid
    [] type = "array" ->
         IF ~IsArray(value) THEN Invalid("Must be an array") ELSE Valid
    [] type = "object" ->
         IF TypeOf(value) # "object" \/ IsArray(value) \/ value = Null
           THEN Invalid("Must be an object")
         ELSE Valid

\* TemplateService.validateVariable
validateVariable(variableConfig, value) ==
  LET type == variableConfig.type
      validation == variableConfig.validation
  IN
  CASE type = "string" ->
         IF TypeOf(value) # "string" THEN Invalid("Must be a string")
         ELSE IF TruthyNum(validation.minLength)
                 /\ Len(Chars(value.s)) < Get(validation.minLength)
           THEN Invalid("Must be at least minLength characters")
         ELSE IF TruthyNum(validation.maxLength)
                 /\ Len(Chars(value.s)) > Get(validation.maxLength)
           THEN Invalid("Must be no more than maxLength characters")
         ELSE IF TruthyStr(validation.pattern)
                 /\ RegExpThrows(Get(validation.pattern))
           THEN Threw("Invalid regular expression")
         ELSE IF TruthyStr(validation.pattern)
                 /\ ~RegExpTest(Get(validation.pattern), value.s)
           THEN Invalid("Invalid format")
         ELSE IF IsSet(validation.enum)
                 /\ ~Includes(Get(validation.enum), value.s)
           THEN Invalid("Must be one of: enum")
         ELSE Valid
    [] type = "number" ->
         IF TypeOf(value) # "number" \/ IsNaN(value)
           THEN Invalid("Must be a valid number")
         ELSE IF IsSet(validation.minimum) /\ value.n < Get(validation.minimum)
           THEN Invalid("Must be at least minimum")
         ELSE IF IsSet(validation.maximum) /\ value.n > Get(validation.maximum)
           THEN Invalid("Must be no more than maximum")
         ELSE Valid
    [] type = "boolean" ->
         IF TypeOf(value) # "boolean" THEN Invalid("Must be true or false")
         ELSE Valid
    [] type = "array" ->
         IF ~IsArray(value) THEN Invalid("Must be an array") ELSE Valid
    [] type = "object" ->
         IF TypeOf(value) # "object" \/ IsArray(value) \/ value = Null
           THEN Invalid("Must be an object")
         ELSE Valid

\* template.variables.filter(p).map(v => v.name), in list order
RECURSIVE FilterNames(_, _)
FilterNames(specs, variables) ==
  IF specs = <<>> THEN <<>>
  ELSE LET variable == Head(specs)
           rest == FilterNames(Tail(specs), variables)
       IN IF variable.required /\ ~In(variable.name, variables)
            THEN <<variable.name>> \o rest
            ELSE rest

\* validateTemplateVariables letting a declared defaultValue stand in for a
\* missing required variable
RECURSIVE validateTemplateVariables_DefaultFills(_, _)
validateTemplateVariables_DefaultFills(specs, variables) ==
  IF specs = <<>> THEN <<>>
  ELSE LET variable == Head(specs)
           rest == validateTemplateVariables_DefaultFills(Tail(specs),
                                                          variables)
       IN IF /\ variable.required
             /\ ~In(variable.name, variables)
             /\ ~IsSet(variable.defaultValue)
            THEN <<variable.name>> \o rest
            ELSE rest

\* TemplateService.validateTemplateVariables: the list of errors it
\* collects, one per missing required variable; it throws
\* TemplateError('Variable validation failed', errors) when the list is
\* not empty
validateTemplateVariables(specs, variables) == FilterNames(specs, variables)

MissingError(names) ==
  [type |-> "missing_variables", variable |-> "",
   message |-> "Required variables are missing", details |-> names]
InvalidError(name, message) ==
  [type |-> "invalid_variable", variable |-> name,
   message |-> message, details |-> <<>>]
CompilationError(message) ==
  [type |-> "template_compilation", variable |-> "",
   message |-> "Template compilation failed", details |-> <<message>>]

\* the for loop of validateTemplate over template.variables: a call of
\* validateVariable that throws leaves the loop and the function
RECURSIVE CheckLoop(_, _, _)
CheckLoop(specs, variables, validation) ==
  IF specs = <<>> \/ validation.threw THEN validation
  ELSE LET variable == Head(specs) IN
       IF ~In(variable.name, variables)
         THEN CheckLoop(Tail(specs), variables, validation)
       ELSE LET variableValidation ==
                  validateVariable(variable, variables[variable.name])
            IN
            IF variableValidation.threw
              THEN [validation EXCEPT !.threw = TRUE]
            ELSE IF ~variableValidation.isValid
              THEN CheckLoop(Tail(specs), variables,
                     [validation EXCEPT
                        !.isValid = FALSE,
                        !.errors = Append(@,
                           InvalidError(variable.name,
                                        variableValidation.message))])
            ELSE CheckLoop(Tail(specs), variables, validation)

\* the variable checks returning at the missing_variables error, without
\* the per-variable loop
VariableChecks_FailFast(specs, variables) ==
  LET missingVariables == FilterNames(specs, variables)
      start == [threw |-> FALSE, isValid |-> TRUE, errors |-> <<>>]
  IN IF Len(missingVariables) > 0
       THEN [start EXCEPT !.isValid = FALSE,
                          !.errors = <<MissingError(missingVariables)>>]
       ELSE CheckLoop(specs, variables, start)

\* TemplateService.validateTemplate, the variable checks: the report after
\* the required-variable check and the per-variable loop
VariableChecks(specs, variables) ==
  LET missingVariables == FilterNames(specs, variables)
      start == [threw |-> FALSE, isValid |-> TRUE, errors |-> <<>>]
      afterMissing ==
        IF Len(missingVariables) > 0
          THEN [start EXCEPT !.isValid = FALSE,
                             !.errors = <<MissingError(missingVariables)>>]
          ELSE start
  IN CheckLoop(specs, variables, afterMissing)

(***************************************************************************)
(* Handlebars.  A template body is a sequence of segments: literal text, a *)
(* {{name}} placeholder, or an opening {{ that is never closed.            *)
(***************************************************************************)
Lit(s) == [k |-> "lit", s |-> s]
Ph(name) == [k |-> "ph", s |-> name]
Open(s) == [k |-> "open", s |-> s]

\* the decimal text of a number
NumText(n) ==
  CASE n = 0 -> "0"
    [] n = 3 -> "3"
    [] n = 80 -> "80"
    [] n = 1024 -> "1024"
    [] n = -1 -> "-1"

\* '' + value
ToText(value) ==
  CASE value.t = "string" -> value.s
    [] value.t = "number" -> NumText(value.n)
    [] value.t = "NaN" -> "NaN"
    [] value.t = "boolean" -> value.s
    [] value.t = "array" -> ""
    [] value.t = "object" -> "[object Object]"
    [] value.t = "null" -> ""

\* Handlebars.Utils.escapeExpression on text: & < > " ' ` = become
\* entities; of the strings of the model only "a=b" holds such a character
EscapeText(s) == IF s = "a=b" THEN "a&#x3D;b" ELSE s

\* Handlebars.Utils.escapeExpression: null and undefined give ''
escapeExpression(value) ==
  IF value.t = "null" THEN "" ELSE EscapeText(ToText(value))

\* handlebars.compile(templateContent) only wraps the source: the source is
\* parsed when the compiled template is first called
CompileThrows(templateContent) == FALSE

\* the parser, run by the first call of the compiled template, rejects an
\* unclosed {{
ParseThrows(templateContent) ==
  \E i \in 1..Len(templateContent) : templateContent[i].k = "open"

\* what one segment renders to: a placeholder is looked up in the context
\* object, and a name the context does not hold gives ''
RenderSegment(segment, variables) ==
  IF segment.k = "lit" THEN segment.s
  ELSE IF In(segment.s, variables)
    THEN escapeExpression(variables[segment.s])
  ELSE ""

\* compiledTemplate(variables), segment by segment
RenderPieces(templateContent, variables) ==
  [i \in 1..Len(templateContent) |->
     RenderSegment(templateContent[i], variables)]

RECURSIVE Join(_)
Join(pieces) ==
  IF pieces = <<>> THEN "" ELSE Head(pieces) \o Join(Tail(pieces))

\* compiledTemplate(variables): the output text
Render(templateContent, variables) ==
  Join(RenderPieces(templateContent, variables))

(***************************************************************************)
(* js-yaml.  yaml.load either throws or gives the parsed root: undefined   *)
(* for an empty document, a scalar, a sequence, or a mapping, of which the *)
(* model keeps the version and services entries (Unset: no such key).      *)
(***************************************************************************)
YamlError == [ok |-> FALSE, kind |-> "error", value |-> Null,
              version |-> Unset, services |-> Unset]
YamlUndefined == [ok |-> TRUE, kind |-> "undefined", value |-> Null,
                  version |-> Unset, services |-> Unset]
YamlScalar(value) == [ok |-> TRUE, kind |-> "scalar", value |-> value,
                      version |-> Unset, services |-> Unset]
YamlSequence == [ok |-> TRUE, kind |-> "sequence", value |-> EmptyArray,
                 version |-> Unset, services |-> Unset]
YamlMapping(version, services) ==
  [ok |-> TRUE, kind |-> "mapping", value |-> EmptyObject,
   version |-> version, services |-> services]

HeaderImage == "version: '3.8'\nservices:\n  app:\n    image: "
HeaderVersion == "version: "
HeaderComment == "version: '3'\n# "

\* texts a scalar position of the model's templates can hold
ScalarTexts == {"nginx", "latest", "80", "0", "3", "v1"}

\* the documents of the model and what yaml.load makes of them
yamlLoad(text) ==
  CASE text = "" -> YamlUndefined
    [] text = "nginx" -> YamlScalar(Str("nginx"))
    [] text = "80" -> YamlScalar(Num(80))
    [] text = "- a" -> YamlSequence
    [] text = "[object Object]" -> YamlSequence
    [] text = "foo: bar" -> YamlMapping(Unset, Unset)
    [] text = "services:" -> YamlMapping(Unset, Some(Null))
    [] text = "not: valid: yaml: : :" -> YamlError
    [] text = HeaderVersion -> YamlMapping(Some(Null), Unset)
    [] text = HeaderVersion \o "0" -> YamlMapping(Some(Num(0)), Unset)
    [] text = HeaderVersion \o "80" -> YamlMapping(Some(Num(80)), Unset)
    [] text = HeaderVersion \o "3" -> YamlMapping(Some(Num(3)), Unset)
    [] text = HeaderVersion \o "a&#x3D;b" ->
         YamlMapping(Some(Str("a&#x3D;b")), Unset)
    [] text = HeaderVersion \o "[object Object]" ->
         YamlMapping(Some(EmptyArray), Unset)
    [] text \in {HeaderComment \o x : x \in ScalarTexts \cup {""}} ->
         YamlMapping(Some(Str("3")), Unset)
    [] text \in {HeaderImage \o x \o ":" \o y :
                   x \in ScalarTexts \cup {""}, y \in ScalarTexts} ->
         YamlMapping(Some(Str("3.8")), Some(EmptyObject))
    [] text \in {HeaderImage \o x \o ":" : x \in ScalarTexts \cup {""}} ->
         YamlError
    [] OTHER -> YamlError

\* the texts yamlLoad is defined on by a case of its own
KnownTexts ==
  {"", "nginx", "80", "- a", "[object Object]", "foo: bar", "services:",
   "not: valid: yaml: : :", HeaderVersion}
  \cup {HeaderVersion \o x : x \in {"0", "80", "3", "a&#x3D;b",
                                    "[object Object]"}}
  \cup {HeaderComment \o x : x \in ScalarTexts \cup {""}}
  \cup {HeaderImage \o x \o ":" \o y :
          x \in ScalarTexts \cup {""}, y \in ScalarTexts \cup {""}}

\* JavaScript truthiness of a parsed value
Truthy(value) ==
  CASE value.t = "string" -> value.s # ""
    [] value.t = "number" -> value.n # 0
    [] value.t = "NaN" -> FALSE
    [] value.t = "boolean" -> value.s = "true"
    [] value.t \in {"array", "object"} -> TRUE
    [] value.t = "null" -> FALSE

\* !parsed.<key>: the key is missing or holds a falsy value
NotField(option) == ~IsSet(option) \/ ~Truthy(Get(option))

\* the line of a text at which yaml.load gives up; the model's texts that
\* do not parse fail on their last line
ErrorLine(text) ==
  IF \E x \in ScalarTexts \cup {""} : text = HeaderImage \o x \o ":"
    THEN "    image: "
         \o (CHOOSE x \in ScalarTexts \cup {""} :
               text = HeaderImage \o x \o ":")
         \o ":"
  ELSE text

\* the message of the YAMLException of yaml.load, as its parts: the reason
\* with the position, then the snippet, which quotes the source text around
\* the position and holds at least the line of the error
YamlExceptionMessage(text) ==
  <<"bad indentation of a mapping entry", ErrorLine(text)>>

\* the TemplateError of validateDockerComposeYaml: details is the message
\* of the error caught, as its parts
YamlOk == [ok |-> TRUE, message |-> "", details |-> <<>>]
YamlRejected(details) ==
  [ok |-> FALSE, message |-> "Invalid Docker Compose YAML",
   details |-> details]

\* validateDockerComposeYaml asking for both fields: || where the source
\* has &&
validateDockerComposeYaml_BothFields(yamlContent) ==
  LET parsed == yamlLoad(yamlContent) IN
  IF ~parsed.ok THEN YamlRejected(YamlExceptionMessage(yamlContent))
  ELSE IF parsed.kind = "undefined"
          \/ (parsed.kind = "scalar"
              /\ (~Truthy(parsed.value) \/ TypeOf(parsed.value) # "object"))
    THEN YamlRejected(<<"Invalid YAML structure">>)
  ELSE IF NotField(parsed.version) \/ NotField(parsed.services)
    THEN YamlRejected(
           <<"Missing required Docker Compose fields (version or services)">>)
  ELSE YamlOk

\* TemplateService.validateDockerComposeYaml: the error it throws, or ok
validateDockerComposeYaml(yamlContent) ==
  LET parsed == yamlLoad(yamlContent) IN
  IF ~parsed.ok THEN YamlRejected(YamlExceptionMessage(yamlContent))
  ELSE IF parsed.kind = "undefined"
          \/ (parsed.kind = "scalar"
              /\ (~Truthy(parsed.value) \/ TypeOf(parsed.value) # "object"))
    THEN YamlRejected(<<"Invalid YAML structure">>)
  ELSE IF NotField(parsed.version) /\ NotField(parsed.services)
    THEN YamlRejected(
           <<"Missing required Docker Compose fields (version or services)">>)
  ELSE YamlOk

(***************************************************************************)
(* The stored templates.                                                   *)
(***************************************************************************)
\* bound of the logical clock that new Date() reads
MaxClock == 1
\* number of service calls that can be in flight at once
MaxCalls == 1

ImageVar == Variable("image", "string", TRUE, Unset, NoValidation)
TagVar == Variable("tag", "string", FALSE, Some(Str("latest")), NoValidation)
VerVar == Variable("ver", "number", TRUE, Some(Num(3)), NoValidation)
DocVar == Variable("doc", "string", FALSE, Unset, NoValidation)

NoUsage == [downloadCount |-> 0, lastUsed |-> 0]

Template(templateContent, variables, isPublic) ==
  [exists |-> TRUE, templateContent |-> templateContent,
   variables |-> variables, isPublic |-> isPublic, isActive |-> TRUE,
   usage |-> NoUsage, updatedAt |-> 0]

\* what Template.findById resolves to for an id no document has
NoTemplate ==
  [exists |-> FALSE, templateContent |-> <<>>, variables |-> <<>>,
   isPublic |-> FALSE, isActive |-> FALSE, usage |-> NoUsage,
   updatedAt |-> 0]

ImageContent == <<Lit(HeaderImage), Ph("image"), Lit(":"), Ph("tag")>>
VersionContent == <<Lit(HeaderVersion), Ph("ver")>>
DocContent == <<Ph("doc")>>
CommentContent == <<Lit(HeaderComment), Ph("unknown_var")>>
UnclosedContent == <<Lit("version: '3'\n"), Open("{{unclosed")>>

TemplateIds == 1..7

InitialTemplates ==
  [id \in TemplateIds |->
     CASE id = 1 -> Template(ImageContent, <<ImageVar, TagVar>>, TRUE)
       [] id = 2 -> Template(VersionContent, <<VerVar>>, TRUE)
       [] id = 3 -> Template(DocContent, <<DocVar>>, TRUE)
       [] id = 4 -> Template(CommentContent, <<>>, TRUE)
       [] id = 5 -> Template(UnclosedContent, <<>>, TRUE)
       [] id = 6 -> Template(ImageContent, <<ImageVar, TagVar>>, FALSE)
       [] id = 7 -> NoTemplate]

\* all maps from some of the names to the values
Maps(names, values) == UNION {[D -> values] : D \in SUBSET names}

EmptyMap == [n \in {} |-> Null]

\* the map with one more entry
Extend(map, name, value) ==
  [x \in DOMAIN map \cup {name} |-> IF x = name THEN value ELSE map[x]]

\* the variable maps a caller sends for a template
VariableMaps(id) ==
  CASE id = 1 -> {Extend(map, "tag", value) :
                    map \in Maps({"image"}, {Str("nginx")}),
                    value \in {Str("latest"), Num(80)}}
                 \cup Maps({"image"}, {Str("nginx")})
    [] id = 2 -> Maps({"ver"}, {Num(80), Num(0), Str("a=b"), Null})
    [] id = 3 -> Maps({"doc"}, {Str("foo: bar"), Str("- a"), Str("services:"),
                                Str("not: valid: yaml: : :"), Str("nginx")})
    [] id = 4 -> Maps({"unknown_var"}, {Str("nginx")})
    [] id = 6 -> {EmptyMap, [image |-> Str("nginx"), tag |-> Str("latest")]}
    [] OTHER -> {EmptyMap}

(***************************************************************************)
(* State.                                                                  *)
(***************************************************************************)
VARIABLES
  templates,   \* the Template collection, by id
  calls,       \* the service calls in flight
  saves,       \* save() promises not settled yet, nobody awaits them
  updates,     \* findByIdAndUpdate(...).exec() promises nobody awaits
  http,        \* the HTTP request being handled
  process,     \* "running", or "exited" after process.exit(1)
  clock,       \* what new Date() reads
  schema,      \* the Schema Validator applied to drawn inputs
  app          \* the Application: its start(), its stop(), what they open

vars ==
  <<templates, calls, saves, updates, http, process, clock, schema, app>>

CallIds == 1..MaxCalls

NoError == [message |-> "", details |-> <<>>]
NoReport == [threw |-> FALSE, isValid |-> TRUE, errors |-> <<>>]

NoPagination ==
  [page |-> 0, limit |-> 0, total |-> 0, pages |-> 0, hasNext |-> FALSE,
   hasPrev |-> FALSE]

\* what a getAllTemplates call holds besides the fields of the other calls
NoList ==
  [page |-> 0, limit |-> 0, findDone |-> FALSE, skipped |-> 0,
   templates |-> <<>>, countDone |-> FALSE, total |-> 0,
   pagination |-> NoPagination]

Idle ==
  [pc |-> "idle", op |-> "none", id |-> 0, variables |-> EmptyMap,
   template |-> NoTemplate, checked |-> FALSE, rendered |-> FALSE,
   pieces |-> <<>>, text |-> "", yamlRan |-> FALSE, increments |-> 0,
   returned |-> FALSE, result |-> "", report |-> NoReport,
   error |-> NoError, doc |-> NoTemplate, list |-> NoList]

\* no request is being handled
NoData == [templateContent |-> Unset, createdBy |-> Unset]

NoQuery == [page |-> Unset, limit |-> Unset]

\* an error object: statusCode 0 and code 0 stand for properties the error
\* does not have, errors lists the paths of a Mongoose ValidationError,
\* keyValue the field and the value of a duplicate key
NoThrown ==
  [name |-> "", message |-> "", statusCode |-> 0, code |-> 0,
   details |-> <<>>, errors |-> <<>>, keyValue |-> <<>>, stack |-> ""]

NoRequest ==
  [stage |-> "idle", route |-> "none", id |-> 0, variables |-> EmptyMap,
   token |-> "none", data |-> NoData, query |-> NoQuery,
   error |-> NoThrown, stack |-> Unset, sent |-> 0,
   call |-> 0, status |-> 0, message |-> "", details |-> <<>>,
   served |-> Idle]

\* the Application before start(): this.server is null, mongoose is
\* disconnected.  exitCode is the code of a process.exit start() or a signal
\* handler has made (-1: none), closed lists what stop() has closed, env is
\* process.env.NODE_ENV
NotStarted ==
  [start |-> "idle", db |-> "disconnected", server |-> "null",
   stop |-> "idle", signal |-> FALSE, exitCode |-> -1, closed |-> <<>>,
   env |-> "production"]

\* the Application once start() has finished: the requests of the model are
\* served in this state
Serving == [NotStarted EXCEPT !.start = "done", !.db = "connected",
                              !.server = "listening"]

SchemaIdle == [pc |-> "idle", specs |-> <<>>, variables |-> EmptyMap,
               report |-> NoReport, errors |-> <<>>]

Init ==
  /\ templates = InitialTemplates
  /\ calls = [c \in CallIds |-> Idle]
  /\ saves = {}
  /\ updates = {}
  /\ http = NoRequest
  /\ process = "running"
  /\ clock = 0
  /\ schema = SchemaIdle
  /\ app = Serving

\* !template || !template.isPublic || !template.isActive
NotAccessible(template) ==
  ~template.exists \/ ~template.isPublic \/ ~template.isActive

Fail(call, message, details) ==
  [call EXCEPT !.pc = "failed",
               !.error = [message |-> message, details |-> details]]

(***************************************************************************)
(* generateDockerCompose                                                   *)
(***************************************************************************)
\* the call and its await Template.findById(templateId): the call holds its
\* own copy of the document
GenerateFind(c, id, variables) ==
  /\ process = "running"
  /\ calls[c].pc = "idle"
  /\ calls' = [calls EXCEPT ![c] =
       [Idle EXCEPT !.pc = "found", !.op = "generate", !.id = id,
                    !.variables = variables, !.template = templates[id]]]
  /\ UNCHANGED <<templates, saves, process, clock, schema, updates, http, app>>

\* GenerateRender with validateDockerComposeYaml called and not awaited: its
\* rejection does not stop the call
GenerateRender_YamlNotAwaited(c) ==
  LET call == calls[c]
      template == call.template
      errors == validateTemplateVariables(template.variables, call.variables)
      pieces == RenderPieces(template.templateContent, call.variables)
      dockerCompose == Join(pieces)
      checked == [call EXCEPT !.checked = TRUE]
      rendered == [checked EXCEPT !.rendered = TRUE, !.pieces = pieces,
                                  !.text = dockerCompose, !.yamlRan = TRUE]
  IN
  /\ process = "running"
  /\ call.pc = "found"
  /\ call.op = "generate"
  /\ calls' = [calls EXCEPT ![c] =
       IF NotAccessible(template)
         THEN Fail(call, "Template not found or not accessible", <<>>)
       ELSE IF Len(errors) > 0
         THEN Fail(checked, "Variable validation failed", errors)
       ELSE IF ParseThrows(template.templateContent)
         THEN Fail([checked EXCEPT !.rendered = TRUE], "Parse error", <<>>)
       ELSE [rendered EXCEPT !.pc = "validated"]]
  /\ UNCHANGED <<templates, saves, process, clock, schema, updates, http, app>>

\* from the access check to await this.validateDockerComposeYaml
GenerateRender(c) ==
  LET call == calls[c]
      template == call.template
      errors == validateTemplateVariables(template.variables, call.variables)
      pieces == RenderPieces(template.templateContent, call.variables)
      dockerCompose == Join(pieces)
      yaml == validateDockerComposeYaml(dockerCompose)
      checked == [call EXCEPT !.checked = TRUE]
      rendered == [checked EXCEPT !.rendered = TRUE, !.pieces = pieces,
                                  !.text = dockerCompose, !.yamlRan = TRUE]
  IN
  /\ process = "running"
  /\ call.pc = "found"
  /\ call.op = "generate"
  /\ calls' = [calls EXCEPT ![c] =
       IF NotAccessible(template)
         THEN Fail(call, "Template not found or not accessible", <<>>)
       ELSE IF Len(errors) > 0
         THEN Fail(checked, "Variable validation failed", errors)
       ELSE IF CompileThrows(template.templateContent)
         THEN Fail(checked, "Compile error", <<>>)
       ELSE IF ParseThrows(template.templateContent)
         THEN Fail([checked EXCEPT !.rendered = TRUE], "Parse error", <<>>)
       ELSE IF ~yaml.ok
         THEN Fail(rendered, yaml.message, yaml.details)
       ELSE [rendered EXCEPT !.pc = "validated"]]
  /\ UNCHANGED <<templates, saves, process, clock, schema, updates, http, app>>

\* templateSchema.methods.incrementDownloadCount, on the call's copy of the
\* document: the save() it starts is a promise of its own
incrementDownloadCount(template, now) ==
  [template EXCEPT !.usage.downloadCount = @ + 1, !.usage.lastUsed = now]

\* after the await: template.incrementDownloadCount() is called and not
\* awaited, then the text is returned
GenerateReturn(c) ==
  LET call == calls[c]
      template == incrementDownloadCount(call.template, clock + 1)
  IN
  /\ process = "running"
  /\ call.pc = "validated"
  /\ clock < MaxClock
  /\ clock' = clock + 1
  /\ saves' = saves \cup {[call |-> c, id |-> call.id,
                           usage |-> template.usage]}
  /\ calls' = [calls EXCEPT ![c] =
       [call EXCEPT !.pc = "returned", !.template = template,
                    !.increments = @ + 1, !.returned = TRUE,
                    !.result = call.text]]
  /\ UNCHANGED <<templates, process, schema, updates, http, app>>

\* the save() of incrementDownloadCount resolves: the document's modified
\* paths are written, and updatedAt with them (timestamps: true)
SaveResolve(save) ==
  /\ process = "running"
  /\ save \in saves
  /\ saves' = saves \ {save}
  /\ templates' = [templates EXCEPT
       ![save.id].usage = save.usage,
       ![save.id].updatedAt = save.usage.lastUsed]
  /\ UNCHANGED <<calls, process, clock, schema, updates, http, app>>

\* the save() rejects; the promise has no handler, so the process-level
\* 'unhandledRejection' handler runs: it logs and calls process.exit(1)
SaveReject(save) ==
  /\ process = "running"
  /\ save \in saves
  /\ saves' = saves \ {save}
  /\ process' = "exited"
  /\ UNCHANGED <<templates, calls, clock, schema, updates, http, app>>

\* the caller has its answer; the slot serves the next call.  A call a
\* controller awaits is taken up by the controller (ControllerRespond).
CallDone(c) ==
  /\ process = "running"
  /\ calls[c].pc \in {"returned", "failed"}
  /\ ~(http.stage = "awaiting" /\ http.call = c)
  /\ calls' = [calls EXCEPT ![c] = Idle]
  /\ UNCHANGED <<templates, saves, process, clock, schema, updates, http, app>>

(***************************************************************************)
(* validateTemplate                                                        *)
(***************************************************************************)
\* ValidateFind that counts the read as a use, as getTemplateById does
ValidateFind_CountsUse(c, id, variables) ==
  /\ process = "running"
  /\ calls[c].pc = "idle"
  /\ calls' = [calls EXCEPT ![c] =
       [Idle EXCEPT !.pc = "found", !.op = "validate", !.id = id,
                    !.variables = variables, !.template = templates[id]]]
  /\ updates' = IF NotAccessible(templates[id]) THEN updates
                ELSE updates \cup {[kind |-> "template", id |-> id,
                                    lastUsed |-> clock]}
  /\ UNCHANGED <<templates, saves, process, clock, schema, http, app>>

\* the call and its await Template.findById(templateId)
ValidateFind(c, id, variables) ==
  /\ process = "running"
  /\ calls[c].pc = "idle"
  /\ calls' = [calls EXCEPT ![c] =
       [Idle EXCEPT !.pc = "found", !.op = "validate", !.id = id,
                    !.variables = variables, !.template = templates[id]]]
  /\ UNCHANGED <<templates, saves, process, clock, schema, updates, http, app>>

\* CompilePass whose catch block adds the error and leaves isValid alone
CompilePass_KeepsValid(template, variables, validation) ==
  LET dockerCompose == Render(template.templateContent, variables)
      yaml == validateDockerComposeYaml(dockerCompose)
      failed(message) ==
        [validation EXCEPT !.errors = Append(@, CompilationError(message))]
  IN
  IF CompileThrows(template.templateContent) THEN failed("Compile error")
  ELSE IF ParseThrows(template.templateContent) THEN failed("Parse error")
  ELSE IF ~yaml.ok THEN failed(yaml.message)
  ELSE validation

\* the try block of validateTemplate "if no errors": the report with the
\* template_compilation error of a failed render or Output Validator pass
CompilePass(template, variables, validation) ==
  LET dockerCompose == Render(template.templateContent, variables)
      yaml == validateDockerComposeYaml(dockerCompose)
      failed(message) ==
        [validation EXCEPT !.isValid = FALSE,
                           !.errors = Append(@, CompilationError(message))]
  IN
  IF CompileThrows(template.templateContent) THEN failed("Compile error")
  ELSE IF ParseThrows(template.templateContent) THEN failed("Parse error")
  ELSE IF ~yaml.ok THEN failed(yaml.message)
  ELSE validation

\* ValidateRun with the render pass run whatever the variable checks found
ValidateRun_AlwaysCompiles(c) ==
  LET call == calls[c]
      template == call.template
      validation == VariableChecks(template.variables, call.variables)
      checked == [call EXCEPT !.checked = TRUE]
      tried == [checked EXCEPT
                  !.rendered = TRUE,
                  !.yamlRan = ~ParseThrows(template.templateContent),
                  !.text = IF ParseThrows(template.templateContent) THEN ""
                           ELSE Render(template.templateContent,
                                       call.variables)]
  IN
  /\ process = "running"
  /\ call.pc = "found"
  /\ call.op = "validate"
  /\ calls' = [calls EXCEPT ![c] =
       IF NotAccessible(template)
         THEN Fail(call, "Template not found or not accessible", <<>>)
       ELSE IF validation.threw
         THEN Fail(checked, "SyntaxError: Invalid regular expression", <<>>)
       ELSE [tried EXCEPT
               !.pc = "returned", !.returned = TRUE,
               !.report = CompilePass(template, call.variables, validation)]]
  /\ UNCHANGED <<templates, saves, process, clock, schema, updates, http, app>>

\* the rest of validateTemplate: access check, variable checks, the render
\* pass when they found nothing, and the report returned
ValidateRun(c) ==
  LET call == calls[c]
      template == call.template
      validation == VariableChecks(template.variables, call.variables)
      checked == [call EXCEPT !.checked = TRUE]
      tried == [checked EXCEPT
                  !.rendered = TRUE,
                  !.yamlRan = ~ParseThrows(template.templateContent),
                  !.text = IF ParseThrows(template.templateContent) THEN ""
                           ELSE Render(template.templateContent,
                                       call.variables)]
  IN
  /\ process = "running"
  /\ call.pc = "found"
  /\ call.op = "validate"
  /\ calls' = [calls EXCEPT ![c] =
       IF NotAccessible(template)
         THEN Fail(call, "Template not found or not accessible", <<>>)
       ELSE IF validation.threw
         THEN Fail(checked, "SyntaxError: Invalid regular expression", <<>>)
       ELSE IF validation.isValid
         THEN [tried EXCEPT
                 !.pc = "returned", !.returned = TRUE,
                 !.report = CompilePass(template, call.variables, validation)]
       ELSE [checked EXCEPT !.pc = "returned", !.returned = TRUE,
                            !.report = validation]]
  /\ UNCHANGED <<templates, saves, process, clock, schema, updates, http, app>>

(***************************************************************************)
(* getTemplateById, deleteTemplate, updateTemplate, createTemplate         *)
(***************************************************************************)
\* the call and its await Template.findById(id).lean()
GetFind(c, id) ==
  /\ process = "running"
  /\ calls[c].pc = "idle"
  /\ calls' = [calls EXCEPT ![c] =
       [Idle EXCEPT !.pc = "found", !.op = "get", !.id = id,
                    !.template = templates[id]]]
  /\ UNCHANGED <<templates, saves, process, clock, schema, updates, http, app>>

\* GetReturn with the counter update started before the access check, for
\* every document found
GetReturn_CountsHidden(c) ==
  LET call == calls[c] IN
  /\ process = "running"
  /\ call.pc = "found"
  /\ call.op = "get"
  /\ IF ~call.template.exists
       THEN /\ calls' = [calls EXCEPT ![c] =
                 [call EXCEPT !.pc = "returned", !.returned = TRUE,
                              !.doc = NoTemplate]]
            /\ UNCHANGED <<updates, clock>>
       ELSE /\ clock < MaxClock
            /\ clock' = clock + 1
            /\ updates' = updates \cup {[kind |-> "template", id |-> call.id,
                                         lastUsed |-> clock + 1]}
            /\ calls' = [calls EXCEPT ![c] =
                 [call EXCEPT !.pc = "returned", !.returned = TRUE,
                              !.doc = IF NotAccessible(call.template)
                                        THEN NoTemplate ELSE call.template]]
  /\ UNCHANGED <<templates, saves, process, schema, http, app>>

\* the rest of getTemplateById: null for a template that is not accessible;
\* otherwise Template.findByIdAndUpdate($inc downloadCount, $set lastUsed)
\* is started and not awaited, and the document read is returned
GetReturn(c) ==
  LET call == calls[c] IN
  /\ process = "running"
  /\ call.pc = "found"
  /\ call.op = "get"
  /\ IF NotAccessible(call.template)
       THEN /\ calls' = [calls EXCEPT ![c] =
                 [call EXCEPT !.pc = "returned", !.returned = TRUE,
                              !.doc = NoTemplate]]
            /\ UNCHANGED <<updates, clock>>
       ELSE /\ clock < MaxClock
            /\ clock' = clock + 1
            /\ updates' = updates \cup {[kind |-> "template", id |-> call.id,
                                         lastUsed |-> clock + 1]}
            /\ calls' = [calls EXCEPT ![c] =
                 [call EXCEPT !.pc = "returned", !.returned = TRUE,
                              !.doc = call.template]]
  /\ UNCHANGED <<templates, saves, process, schema, http, app>>

\* a findByIdAndUpdate nobody awaits is applied by the database, in one
\* step: $inc and $set on the stored document, updatedAt with them; the
\* update of the User collection touches no template
UpdateResolve(update) ==
  /\ process = "running"
  /\ update \in updates
  /\ updates' = updates \ {update}
  /\ templates' =
       IF update.kind = "template" /\ templates[update.id].exists
         THEN [templates EXCEPT
                 ![update.id].usage.downloadCount = @ + 1,
                 ![update.id].usage.lastUsed = update.lastUsed,
                 ![update.id].updatedAt = update.lastUsed]
       ELSE templates
  /\ UNCHANGED <<calls, saves, process, clock, schema, http, app>>

\* the update rejects; the promise has no handler, so the process-level
\* 'unhandledRejection' handler runs: it logs and calls process.exit(1)
UpdateReject(update) ==
  /\ process = "running"
  /\ update \in updates
  /\ updates' = updates \ {update}
  /\ process' = "exited"
  /\ UNCHANGED <<templates, calls, saves, clock, schema, http, app>>

\* ids the store-changing operations are called with: a public template, a
\* private one, and an id no document has
EditedIds == {1, 6, 7}

\* DeleteTemplate that removes the document (findByIdAndDelete)
DeleteTemplate_Removes(c, id) ==
  /\ process = "running"
  /\ calls[c].pc = "idle"
  /\ IF templates[id].exists
       THEN /\ clock < MaxClock
            /\ clock' = clock + 1
            /\ templates' = [templates EXCEPT ![id] = NoTemplate]
            /\ calls' = [calls EXCEPT ![c] =
                 [Idle EXCEPT !.pc = "returned", !.op = "delete", !.id = id,
                              !.template = templates[id], !.returned = TRUE,
                              !.doc = templates[id]]]
       ELSE /\ calls' = [calls EXCEPT ![c] =
                 Fail([Idle EXCEPT !.op = "delete", !.id = id],
                      "Template not found", <<>>)]
            /\ UNCHANGED <<templates, clock>>
  /\ UNCHANGED <<saves, process, schema, updates, http, app>>

\* deleteTemplate: Template.findByIdAndUpdate(id, {isActive: false}) in one
\* step, updatedAt with it (timestamps: true); 'Template not found' when no
\* document has the id
DeleteTemplate(c, id) ==
  /\ process = "running"
  /\ calls[c].pc = "idle"
  /\ IF templates[id].exists
       THEN /\ clock < MaxClock
            /\ clock' = clock + 1
            /\ templates' = [templates EXCEPT ![id].isActive = FALSE,
                                              ![id].updatedAt = clock + 1]
            /\ calls' = [calls EXCEPT ![c] =
                 [Idle EXCEPT !.pc = "returned", !.op = "delete", !.id = id,
                              !.template = templates[id], !.returned = TRUE,
                              !.doc = templates'[id]]]
       ELSE /\ calls' = [calls EXCEPT ![c] =
                 Fail([Idle EXCEPT !.op = "delete", !.id = id],
                      "Template not found", <<>>)]
            /\ UNCHANGED <<templates, clock>>
  /\ UNCHANGED <<saves, process, schema, updates, http, app>>

ContentOk == [ok |-> TRUE, message |-> ""]
ContentRejected == [ok |-> FALSE, message |-> "Invalid template syntax"]

\* validateTemplateContent: handlebars.compile(templateContent) in a try
\* block.  compile throws for an input that is no string (Unset: the field
\* is undefined) and otherwise only wraps the source (CompileThrows)
validateTemplateContent(templateContent) ==
  IF ~IsSet(templateContent) THEN ContentRejected
  ELSE IF CompileThrows(Get(templateContent)) THEN ContentRejected
  ELSE ContentOk

\* update data: the fields a caller of updateTemplate sets
NoChange == [templateContent |-> Unset, isPublic |-> Unset, isActive |-> Unset]

UpdateDatas ==
  {[NoChange EXCEPT !.templateContent = Some(UnclosedContent)],
   [NoChange EXCEPT !.isPublic = Some(FALSE)],
   [NoChange EXCEPT !.isActive = Some(TRUE)]}

\* the value of a field after an update that may set it
Apply(option, old) == IF IsSet(option) THEN Get(option) ELSE old

\* updateTemplate: validateTemplateContent when the data holds a (truthy)
\* templateContent, then Template.findByIdAndUpdate(id, updateData) in one
\* step, updatedAt with it; null when no document has the id
UpdateTemplate(c, id, updateData) ==
  LET content == updateData.templateContent
      validated == IF IsSet(content) /\ Get(content) # <<>>
                     THEN validateTemplateContent(content)
                   ELSE ContentOk
      started == [Idle EXCEPT !.op = "update", !.id = id]
  IN
  /\ process = "running"
  /\ calls[c].pc = "idle"
  /\ IF ~validated.ok
       THEN /\ calls' = [calls EXCEPT ![c] =
                 Fail(started, validated.message, <<>>)]
            /\ UNCHANGED <<templates, clock>>
     ELSE IF ~templates[id].exists
       THEN /\ calls' = [calls EXCEPT ![c] =
                 [started EXCEPT !.pc = "returned", !.returned = TRUE,
                                 !.doc = NoTemplate]]
            /\ UNCHANGED <<templates, clock>>
     ELSE /\ clock < MaxClock
          /\ clock' = clock + 1
          /\ templates' = [templates EXCEPT ![id] =
               [@ EXCEPT
                  !.templateContent = Apply(content, @),
                  !.isPublic = Apply(updateData.isPublic, @),
                  !.isActive = Apply(updateData.isActive, @),
                  !.updatedAt = clock + 1]]
          /\ calls' = [calls EXCEPT ![c] =
               [started EXCEPT !.pc = "returned", !.returned = TRUE,
                               !.template = templates[id],
                               !.doc = templates'[id]]]
  /\ UNCHANGED <<saves, process, schema, updates, http, app>>

\* template data: the templateContent and the createdBy a caller of
\* createTemplate sends; 1 stands for the ObjectId of a user
TemplateDatas ==
  {[templateContent |-> Unset, createdBy |-> Some(1)],
   [templateContent |-> Some(UnclosedContent), createdBy |-> Some(1)],
   [templateContent |-> Some(CommentContent), createdBy |-> Some(1)],
   [templateContent |-> Some(CommentContent), createdBy |-> Unset]}

\* ids no document has
FreeIds == {id \in TemplateIds : ~templates[id].exists}

\* template.save() runs the schema's validators first: createdBy is
\* required
SaveFails(templateData) == ~IsSet(templateData.createdBy)

\* ServiceCreateTemplate with the statistics update started before the save
ServiceCreateTemplate_CountsFirst(c, templateData) ==
  LET validated == validateTemplateContent(templateData.templateContent)
      id == CHOOSE id \in FreeIds : TRUE
      savedTemplate ==
        [Template(Get(templateData.templateContent), <<>>, TRUE)
           EXCEPT !.updatedAt = clock + 1]
      increment == [kind |-> "user", id |-> 0, lastUsed |-> clock + 1]
  IN
  /\ process = "running"
  /\ calls[c].pc = "idle"
  /\ IF ~validated.ok
       THEN /\ calls' = [calls EXCEPT ![c] =
                 Fail([Idle EXCEPT !.op = "create"], validated.message, <<>>)]
            /\ UNCHANGED <<templates, clock, updates>>
     ELSE IF SaveFails(templateData)
       THEN /\ clock < MaxClock
            /\ clock' = clock + 1
            /\ updates' = updates \cup {increment}
            /\ calls' = [calls EXCEPT ![c] =
                 Fail([Idle EXCEPT !.op = "create"],
                      "Template validation failed", <<"createdBy">>)]
            /\ UNCHANGED templates
     ELSE /\ FreeIds # {}
          /\ clock < MaxClock
          /\ clock' = clock + 1
          /\ templates' = [templates EXCEPT ![id] = savedTemplate]
          /\ updates' = updates \cup {increment}
          /\ calls' = [calls EXCEPT ![c] =
               [Idle EXCEPT !.pc = "returned", !.op = "create", !.id = id,
                            !.returned = TRUE, !.doc = savedTemplate]]
  /\ UNCHANGED <<saves, process, schema, app>>

\* createTemplate of the service: validateTemplateContent, then
\* new Template(...).save(), then
\* User.findByIdAndUpdate(createdBy, $inc statistics.templatesCreated)
\* started and not awaited; the first failure is rethrown.  The model stamps
\* the update with the clock to tell one update from the next
ServiceCreateTemplate(c, templateData) ==
  LET validated == validateTemplateContent(templateData.templateContent)
      id == CHOOSE id \in FreeIds : TRUE
      savedTemplate ==
        [Template(Get(templateData.templateContent), <<>>, TRUE)
           EXCEPT !.updatedAt = clock + 1]
      increment == [kind |-> "user", id |-> 0, lastUsed |-> clock + 1]
  IN
  /\ process = "running"
  /\ calls[c].pc = "idle"
  /\ IF ~validated.ok
       THEN /\ calls' = [calls EXCEPT ![c] =
                 Fail([Idle EXCEPT !.op = "create"], validated.message, <<>>)]
            /\ UNCHANGED <<templates, clock, updates>>
     ELSE IF SaveFails(templateData)
       THEN /\ calls' = [calls EXCEPT ![c] =
                 Fail([Idle EXCEPT !.op = "create"],
                      "Template validation failed", <<"createdBy">>)]
            /\ UNCHANGED <<templates, clock, updates>>
     ELSE /\ FreeIds # {}
          /\ clock < MaxClock
          /\ clock' = clock + 1
          /\ templates' = [templates EXCEPT ![id] = savedTemplate]
          /\ updates' = updates \cup {increment}
          /\ calls' = [calls EXCEPT ![c] =
               [Idle EXCEPT !.pc = "returned", !.op = "create", !.id = id,
                            !.returned = TRUE, !.doc = savedTemplate]]
  /\ UNCHANGED <<saves, process, schema, app>>

\* createTemplate called on the service
CreateTemplate(c, templateData) ==
  /\ ServiceCreateTemplate(c, templateData)
  /\ UNCHANGED http

(***************************************************************************)
(* The HTTP layer: the routes GET /api/templates/:id,                      *)
(* POST /api/templates/:id/generate and POST /api/templates, their         *)
(* controllers, the error handler.                                         *)
(***************************************************************************)
\* the :id of a request: 0 stands for a string that is no ObjectId, such
\* as 'invalid-id'
RequestIds == {0} \cup EditedIds

Routes == {"get", "generate"}

\* Express calls each function of a route's chain as fn(req, res, next).
\* The routes name validateObjectId itself, not validateObjectId(): called
\* this way it binds paramName to req, builds the checking middleware and
\* returns it; it neither answers nor calls next()
validateObjectId(id) == "returned"

\* the variables of a request body; a GET carries none
Bodies(route, id) ==
  IF route = "generate" THEN VariableMaps(id) ELSE {EmptyMap}

\* a request arrives and the router matches its route
Request(route, id, variables) ==
  /\ process = "running"
  /\ app.server = "listening"
  /\ http.stage = "idle"
  /\ http' = [NoRequest EXCEPT !.stage = "chain", !.route = route,
                               !.id = id, !.variables = variables]
  /\ UNCHANGED <<templates, calls, saves, process, clock, schema, updates, app>>

\* error.name of the errors of the model
ErrorName(error) ==
  CASE error.message \in {"Template not found",
                          "Template not found or not accessible",
                          "Variable validation failed",
                          "Invalid Docker Compose YAML",
                          "Invalid template syntax"} -> "TemplateError"
    [] error.message = "Cast to ObjectId failed" -> "CastError"
    [] error.message = "Template validation failed" -> "ValidationError"
    [] error.message = "jwt not active" -> "NotBeforeError"
    [] OTHER -> "Error"

Response(status, message, details) ==
  [status |-> status, message |-> message, details |-> details]

\* the error object thrown for an error of the service model
Thrown(error) ==
  [NoThrown EXCEPT
     !.name = ErrorName(error),
     !.message = error.message,
     !.details = IF ErrorName(error) = "TemplateError" THEN error.details
                 ELSE <<>>,
     !.errors = IF ErrorName(error) = "ValidationError" THEN error.details
                ELSE <<>>]

\* errorHandler with the message of an unrecognised error in the response
errorHandler_DisclosesMessage(error) ==
  IF error.name = "ValidationError"
    THEN Response(400, "Validation Error", error.errors)
  ELSE IF error.name = "CastError"
    THEN Response(400, "Invalid ID format", <<>>)
  ELSE IF error.code = 11000
    THEN Response(409, "Duplicate entry",
                  <<error.keyValue[1] \o " '" \o error.keyValue[2]
                      \o "' already exists">>)
  ELSE IF error.name = "JsonWebTokenError"
    THEN Response(401, "Invalid token", <<>>)
  ELSE IF error.name = "TokenExpiredError"
    THEN Response(401, "Token expired", <<>>)
  ELSE IF error.statusCode # 0
    THEN Response(error.statusCode, error.message, error.details)
  ELSE IF error.name = "TemplateError"
    THEN Response(400, error.message, error.details)
  ELSE IF error.name = "DockerError"
    THEN Response(502, "Docker service error",
                  IF error.message = "" THEN <<>> ELSE <<error.message>>)
  ELSE Response(500, error.message, <<>>)

\* errorHandler: status, message and details by the first branch that
\* matches; details are left out of the response when falsy (<<>>)
errorHandler(error) ==
  IF error.name = "ValidationError"
    THEN Response(400, "Validation Error", error.errors)
  ELSE IF error.name = "CastError"
    THEN Response(400, "Invalid ID format", <<>>)
  ELSE IF error.code = 11000
    THEN Response(409, "Duplicate entry",
                  <<error.keyValue[1] \o " '" \o error.keyValue[2]
                      \o "' already exists">>)
  ELSE IF error.name = "JsonWebTokenError"
    THEN Response(401, "Invalid token", <<>>)
  ELSE IF error.name = "TokenExpiredError"
    THEN Response(401, "Token expired", <<>>)
  ELSE IF error.statusCode # 0
    THEN Response(error.statusCode, error.message, error.details)
  ELSE IF error.name = "TemplateError"
    THEN Response(400, error.message, error.details)
  ELSE IF error.name = "DockerError"
    THEN Response(502, "Docker service error",
                  IF error.message = "" THEN <<>> ELSE <<error.message>>)
  ELSE Response(500, "Internal Server Error", <<>>)

\* response.stack = error.stack when NODE_ENV is 'development'
ResponseStack(error, env) ==
  IF env = "development" THEN Some(error.stack) ELSE Unset

\* the tokens a request carries: none; one jwt.verify rejects as malformed,
\* as expired, or as not active yet (its nbf is in the future); a verified
\* one whose userId is no ObjectId, names no user, names a user that is not
\* active, names an active user
Tokens == {"none", "malformed", "expired", "early", "uncastable", "unknown",
           "inactive", "active"}

Continue == [step |-> "next", response |-> Response(0, "", <<>>),
             error |-> NoError]
Answer(status, message) ==
  [Continue EXCEPT !.step = "answered",
                   !.response = Response(status, message, <<>>)]
NextError(message) ==
  [Continue EXCEPT !.step = "error", !.error.message = message]

\* requireAuth: 401 without a token; jwt.verify, then User.findById; 401 for
\* no user or a user that is not active; in the catch block 401 for a
\* JsonWebTokenError and for a TokenExpiredError, next(error) for any other
\* error (jwt.verify's NotBeforeError, findById's CastError)
requireAuth(token) ==
  CASE token = "none" -> Answer(401, "Access token is required")
    [] token = "malformed" -> Answer(401, "Invalid token")
    [] token = "expired" -> Answer(401, "Token expired")
    [] token = "early" -> NextError("jwt not active")
    [] token = "uncastable" -> NextError("Cast to ObjectId failed")
    [] token \in {"unknown", "inactive"} ->
         Answer(401, "Invalid or expired token")
    [] OTHER -> Continue

\* the router calls the first function of the chain: validateObjectId on
\* the :id routes, requireAuth on POST /api/templates.  An error handed to
\* next() passes errorLogger and ends in errorHandler
RouteChain ==
  LET passed == requireAuth(http.token)
      response == IF passed.step = "error"
                    THEN errorHandler(Thrown(passed.error))
                  ELSE passed.response
  IN
  /\ process = "running"
  /\ http.stage = "chain"
  /\ http' =
       IF http.route # "create"
         THEN [http EXCEPT !.stage =
                 IF validateObjectId(http.id) = "next" THEN "controller"
                 ELSE "pending"]
       ELSE IF passed.step = "next" THEN [http EXCEPT !.stage = "controller"]
       ELSE [http EXCEPT !.stage = "answered",
                         !.status = response.status,
                         !.message = response.message,
                         !.details = response.details]
  /\ UNCHANGED <<templates, calls, saves, process, clock, schema, updates, app>>

\* server.timeout = 30000: the socket of a request nothing works on is
\* destroyed, no response is written
SocketTimeout ==
  /\ process = "running"
  /\ http.stage = "pending"
  /\ http' = [http EXCEPT !.stage = "closed"]
  /\ UNCHANGED <<templates, calls, saves, process, clock, schema, updates, app>>

\* a controller method is called with a request, as Express does once the
\* functions before it in a chain have called next()
Invoke(route, id, variables) ==
  /\ process = "running"
  /\ http.stage = "idle"
  /\ http' = [NoRequest EXCEPT !.stage = "controller", !.route = route,
                               !.id = id, !.variables = variables]
  /\ UNCHANGED <<templates, calls, saves, process, clock, schema, updates, app>>

\* the service call a controller starts and awaits: Template.findById
\* rejects with a CastError for an id that is no ObjectId
Started(op) ==
  IF http.id = 0
    THEN Fail([Idle EXCEPT !.op = op], "Cast to ObjectId failed", <<>>)
  ELSE [Idle EXCEPT !.pc = "found", !.op = op, !.id = http.id,
                    !.variables = http.variables,
                    !.template = templates[http.id]]

\* TemplateController.generateCompose up to its await
ControllerGenerateCompose(c) ==
  /\ process = "running"
  /\ http.stage = "controller"
  /\ http.route = "generate"
  /\ calls[c].pc = "idle"
  /\ calls' = [calls EXCEPT ![c] = Started("generate")]
  /\ http' = [http EXCEPT !.stage = "awaiting", !.call = c]
  /\ UNCHANGED <<templates, saves, process, clock, schema, updates, app>>

\* TemplateController.getTemplateById up to its await
ControllerGetTemplateById(c) ==
  /\ process = "running"
  /\ http.stage = "controller"
  /\ http.route = "get"
  /\ calls[c].pc = "idle"
  /\ calls' = [calls EXCEPT ![c] = Started("get")]
  /\ http' = [http EXCEPT !.stage = "awaiting", !.call = c]
  /\ UNCHANGED <<templates, saves, process, clock, schema, updates, app>>

\* TemplateController.createTemplate up to the end of its await: the route
\* declares no validators, so validationResult(req) is empty, and
\* templateService.createTemplate(req.body) runs
ControllerCreateTemplate(c) ==
  /\ http.stage = "controller"
  /\ http.route = "create"
  /\ ServiceCreateTemplate(c, http.data)
  /\ http' = [http EXCEPT !.stage = "awaiting", !.call = c]

\* what a controller does with the outcome of the call it awaited: the
\* result is sent, null is a 404 of getTemplateById, and an error goes to
\* next(error), which ends in errorHandler
Responds(call) ==
  IF call.pc = "failed" THEN errorHandler(Thrown(call.error))
  ELSE IF call.op = "create"
    THEN Response(201, "Template created successfully", <<>>)
  ELSE IF call.op = "list"
    THEN Response(200, "Templates retrieved successfully", <<>>)
  ELSE IF call.op = "get" /\ ~call.doc.exists
    THEN Response(404, "Template not found", <<>>)
  ELSE IF call.op = "get"
    THEN Response(200, "Template retrieved successfully", <<>>)
  ELSE Response(200, "Docker Compose generated successfully", <<call.result>>)

\* the awaited call has settled: the controller answers
ControllerRespond ==
  LET call == calls[http.call]
      response == Responds(call)
  IN
  /\ process = "running"
  /\ http.stage = "awaiting"
  /\ call.pc \in {"returned", "failed"}
  /\ http' = [http EXCEPT !.stage = "answered",
                          !.status = response.status,
                          !.message = response.message,
                          !.details = response.details,
                          !.served = call]
  /\ calls' = [calls EXCEPT ![http.call] = Idle]
  /\ UNCHANGED <<templates, saves, process, clock, schema, updates, app>>

\* the request is over
RequestDone ==
  /\ process = "running"
  /\ http.stage \in {"answered", "closed"}
  /\ http' = NoRequest
  /\ UNCHANGED <<templates, calls, saves, process, clock, schema, updates, app>>

Next ==
  \/ \E c \in CallIds, id \in TemplateIds :
       \E variables \in VariableMaps(id) : GenerateFind(c, id, variables)
  \/ \E c \in CallIds : GenerateRender(c)
  \/ \E c \in CallIds : GenerateReturn(c)
  \/ \E c \in CallIds, id \in TemplateIds :
       \E variables \in VariableMaps(id) : ValidateFind(c, id, variables)
  \/ \E c \in CallIds : ValidateRun(c)
  \/ \E save \in saves : SaveResolve(save)
  \/ \E save \in saves : SaveReject(save)
  \/ \E c \in CallIds : CallDone(c)
  \/ \E c \in CallIds, id \in TemplateIds : GetFind(c, id)
  \/ \E c \in CallIds : GetReturn(c)
  \/ \E update \in updates : UpdateResolve(update)
  \/ \E update \in updates : UpdateReject(update)
  \/ \E c \in CallIds, id \in EditedIds : DeleteTemplate(c, id)
  \/ \E c \in CallIds, id \in EditedIds :
       \E updateData \in UpdateDatas : UpdateTemplate(c, id, updateData)
  \/ \E c \in CallIds :
       \E templateData \in TemplateDatas : CreateTemplate(c, templateData)
  \/ \E route \in Routes, id \in RequestIds :
       \E variables \in Bodies(route, id) : Request(route, id, variables)
  \/ RouteChain
  \/ SocketTimeout
  \/ \E route \in Routes, id \in RequestIds :
       \E variables \in Bodies(route, id) : Invoke(route, id, variables)
  \/ \E c \in CallIds : ControllerGenerateCompose(c)
  \/ \E c \in CallIds : ControllerGetTemplateById(c)
  \/ ControllerRespond
  \/ RequestDone

Spec == Init /\ [][Next]_vars

(***************************************************************************)
(* POST /api/templates on its own: requests with every kind of token and   *)
(* of template data, through requireAuth and the createTemplate handler.   *)
(***************************************************************************)
\* a POST /api/templates request arrives
CreateRequest(token, templateData) ==
  /\ process = "running"
  /\ app.server = "listening"
  /\ http.stage = "idle"
  /\ http' = [NoRequest EXCEPT !.stage = "chain", !.route = "create",
                               !.token = token, !.data = templateData]
  /\ UNCHANGED <<templates, calls, saves, process, clock, schema, updates,
                 app>>

AuthNext ==
  \/ \E token \in Tokens, templateData \in TemplateDatas :
       CreateRequest(token, templateData)
  \/ RouteChain
  \/ \E c \in CallIds : ControllerCreateTemplate(c)
  \/ ControllerRespond
  \/ RequestDone
  \/ \E update \in updates : UpdateResolve(update)
  \/ \E update \in updates : UpdateReject(update)

AuthSpec == Init /\ [][AuthNext]_vars

(***************************************************************************)
(* One template under repeated use: generateDockerCompose, getTemplateById,*)
(* deleteTemplate and updateTemplate on the same document, for as many     *)
(* store-changing steps as MaxUses.                                        *)
(***************************************************************************)
\* store-changing steps in a behaviour of RaceSpec
MaxUses == 3

\* the public template the calls use, and the variables sent for it
RaceId == 1
RaceVariables == [image |-> Str("nginx"), tag |-> Str("latest")]

\* the clock is read relative to the start of the behaviours of Spec; the
\* behaviours of RaceSpec start MaxUses ticks before the last tick
RaceInit ==
  /\ templates = InitialTemplates
  /\ calls = [c \in CallIds |-> Idle]
  /\ saves = {}
  /\ updates = {}
  /\ http = NoRequest
  /\ process = "running"
  /\ clock = MaxClock - MaxUses
  /\ schema = SchemaIdle
  /\ app = Serving

RaceNext ==
  \/ \E c \in CallIds : GenerateFind(c, RaceId, RaceVariables)
  \/ \E c \in CallIds : GenerateRender(c)
  \/ \E c \in CallIds : GenerateReturn(c)
  \/ \E save \in saves : SaveResolve(save)
  \/ \E save \in saves : SaveReject(save)
  \/ \E c \in CallIds : CallDone(c)
  \/ \E c \in CallIds : GetFind(c, RaceId)
  \/ \E c \in CallIds : GetReturn(c)
  \/ \E update \in updates : UpdateResolve(update)
  \/ \E update \in updates : UpdateReject(update)
  \/ \E c \in CallIds : DeleteTemplate(c, RaceId)
  \/ \E c \in CallIds :
       \E updateData \in UpdateDatas : UpdateTemplate(c, RaceId, updateData)

RaceSpec == RaceInit /\ [][RaceNext]_vars

(***************************************************************************)
(* GET /api/templates on its own: the query strings a client sends, over   *)
(* collections in which some of the public templates were deleted.         *)
(***************************************************************************)
\* the defaults of the query parameters page and limit
DefaultPage == 1
DefaultLimit == 10
\* the largest page size the API documents
MaxPageSize == 100

\* the value of a string of decimal digits
RECURSIVE DigitsValue(_)
DigitsValue(digits) ==
  IF digits = <<>> THEN 0
  ELSE 10 * DigitsValue(SubSeq(digits, 1, Len(digits) - 1))
         + digits[Len(digits)]

\* parseInt of a query parameter: the default when the parameter is absent,
\* the value of the digits otherwise.  The parameters of the model are
\* strings of digits that start with a digit from 1 to 9
parseInt(parameter, default) ==
  IF IsSet(parameter) THEN DigitsValue(Get(parameter)) ELSE default

Pages == {Unset, Some(<<1>>), Some(<<2>>), Some(<<3>>)}
Limits == {Unset, Some(<<1>>), Some(<<2>>), Some(<<3>>), Some(<<1, 0, 0>>),
           Some(<<1, 0, 1>>)}

\* the filter {isPublic: true, isActive: true} on a collection
Matching(collection) ==
  {id \in TemplateIds : /\ collection[id].exists
                         /\ collection[id].isPublic
                         /\ collection[id].isActive}

SetMax(S) == CHOOSE x \in S : \A y \in S : y <= x

\* .sort({createdAt: -1}): ids are handed out in the order of creation
RECURSIVE SortDesc(_)
SortDesc(S) ==
  IF S = {} THEN <<>> ELSE <<SetMax(S)>> \o SortDesc(S \ {SetMax(S)})

Min2(a, b) == IF a <= b THEN a ELSE b

\* .skip(skip).limit(limit) on a sorted result
Slice(sorted, skip, limit) ==
  SubSeq(sorted, skip + 1, Min2(Len(sorted), skip + limit))

\* Math.ceil(total / limit)
Ceil(total, limit) == (total + limit - 1) \div limit

\* the public templates a deployment has deleted before
Deleted(ids) ==
  [id \in TemplateIds |->
     IF id \in ids THEN [InitialTemplates[id] EXCEPT !.isActive = FALSE]
     ELSE InitialTemplates[id]]

ListInit ==
  /\ \E ids \in SUBSET Matching(InitialTemplates) : templates = Deleted(ids)
  /\ calls = [c \in CallIds |-> Idle]
  /\ saves = {}
  /\ updates = {}
  /\ http = NoRequest
  /\ process = "running"
  /\ clock = 0
  /\ schema = SchemaIdle
  /\ app = Serving

\* GET /api/templates arrives: the route names the controller method only,
\* the router calls it at once
ListRequest(page, limit) ==
  /\ process = "running"
  /\ app.server = "listening"
  /\ http.stage = "idle"
  /\ http' = [NoRequest EXCEPT !.stage = "controller", !.route = "list",
                               !.query = [page |-> page, limit |-> limit]]
  /\ UNCHANGED <<templates, calls, saves, process, clock, schema, updates,
                 app>>

\* TemplateController.getAllTemplates up to its await: page and limit of
\* req.query, defaulted and parsed, go to the service
ControllerGetAllTemplates(c) ==
  /\ process = "running"
  /\ http.stage = "controller"
  /\ http.route = "list"
  /\ calls[c].pc = "idle"
  /\ calls' = [calls EXCEPT ![c] =
       [Idle EXCEPT !.pc = "listing", !.op = "list",
                    !.list.page = parseInt(http.query.page, DefaultPage),
                    !.list.limit = parseInt(http.query.limit, DefaultLimit)]]
  /\ http' = [http EXCEPT !.stage = "awaiting", !.call = c]
  /\ UNCHANGED <<templates, saves, process, clock, schema, updates, app>>

\* getAllTemplates: Template.find(filter).sort().skip(skip).limit(limit),
\* one of the two queries of the Promise.all
ListFind(c) ==
  LET list == calls[c].list
      skip == (list.page - 1) * list.limit
  IN
  /\ process = "running"
  /\ calls[c].pc = "listing"
  /\ ~list.findDone
  /\ calls' = [calls EXCEPT ![c].list =
       [list EXCEPT !.findDone = TRUE, !.skipped = skip,
                    !.templates = Slice(SortDesc(Matching(templates)), skip,
                                        list.limit)]]
  /\ UNCHANGED <<templates, saves, process, clock, schema, updates, http,
                 app>>

\* getAllTemplates: Template.countDocuments(filter), the other query
ListCount(c) ==
  LET list == calls[c].list IN
  /\ process = "running"
  /\ calls[c].pc = "listing"
  /\ ~list.countDone
  /\ calls' = [calls EXCEPT ![c].list =
       [list EXCEPT !.countDone = TRUE,
                    !.total = Cardinality(Matching(templates))]]
  /\ UNCHANGED <<templates, saves, process, clock, schema, updates, http,
                 app>>

\* ListReturn with hasNext computed as page * limit <= total
ListReturn_HasNextInclusive(c) ==
  LET list == calls[c].list IN
  /\ process = "running"
  /\ calls[c].pc = "listing"
  /\ list.findDone
  /\ list.countDone
  /\ calls' = [calls EXCEPT ![c] =
       [@ EXCEPT !.pc = "returned", !.returned = TRUE,
                 !.list.pagination =
                   [page |-> list.page, limit |-> list.limit,
                    total |-> list.total,
                    pages |-> Ceil(list.total, list.limit),
                    hasNext |-> list.page * list.limit <= list.total,
                    hasPrev |-> list.page > 1]]]
  /\ UNCHANGED <<templates, saves, process, clock, schema, updates, http,
                 app>>

\* getAllTemplates once both queries have resolved: templates and the
\* pagination object
ListReturn(c) ==
  LET list == calls[c].list IN
  /\ process = "running"
  /\ calls[c].pc = "listing"
  /\ list.findDone
  /\ list.countDone
  /\ calls' = [calls EXCEPT ![c] =
       [@ EXCEPT !.pc = "returned", !.returned = TRUE,
                 !.list.pagination =
                   [page |-> list.page, limit |-> list.limit,
                    total |-> list.total,
                    pages |-> Ceil(list.total, list.limit),
                    hasNext |-> list.page * list.limit < list.total,
                    hasPrev |-> list.page > 1]]]
  /\ UNCHANGED <<templates, saves, process, clock, schema, updates, http,
                 app>>

ListNext ==
  \/ \E page \in Pages, limit \in Limits : ListRequest(page, limit)
  \/ \E c \in CallIds : ControllerGetAllTemplates(c)
  \/ \E c \in CallIds : ListFind(c)
  \/ \E c \in CallIds : ListCount(c)
  \/ \E c \in CallIds : ListReturn(c)
  \/ ControllerRespond
  \/ RequestDone

ListSpec == ListInit /\ [][ListNext]_vars

(***************************************************************************)
(* The Application: start(), stop(), the signal handlers, and the requests *)
(* GET /api/templates served in between.                                   *)
(***************************************************************************)
\* start() is called: connectDatabase() awaits mongoose.connect
AppStart ==
  /\ process = "running"
  /\ app.start = "idle"
  /\ app' = [app EXCEPT !.start = "connecting", !.db = "connecting"]
  /\ UNCHANGED <<templates, calls, saves, process, clock, schema, updates,
                 http>>

\* ConnectResolve of a start() that listens without waiting for the
\* connection
AppListen_BeforeConnect ==
  /\ process = "running"
  /\ app.start = "connecting"
  /\ app.server = "null"
  /\ app' = [app EXCEPT !.server = "listening"]
  /\ UNCHANGED <<templates, calls, saves, process, clock, schema, updates,
                 http>>

\* mongoose.connect resolves: connectDatabase returns and start() goes on to
\* this.server = this.app.listen(port, host, ...)
AppListen ==
  /\ process = "running"
  /\ app.start = "connecting"
  /\ app.db = "connecting"
  /\ app' = [app EXCEPT !.start = "done", !.db = "connected",
                        !.server = "listening"]
  /\ UNCHANGED <<templates, calls, saves, process, clock, schema, updates,
                 http>>

\* the server emits 'error' (the port is in use, for one): the handler
\* start() registered logs and rethrows, the 'uncaughtException' handler
\* calls process.exit(1)
AppServerError ==
  /\ process = "running"
  /\ app.server = "listening"
  /\ app' = [app EXCEPT !.exitCode = 1]
  /\ process' = "exited"
  /\ UNCHANGED <<templates, calls, saves, clock, schema, updates, http>>

\* mongoose.connect rejects: connectDatabase rethrows, the catch block of
\* start() logs and calls process.exit(1)
AppConnectFails ==
  /\ process = "running"
  /\ app.start = "connecting"
  /\ app.db = "connecting"
  /\ app' = [app EXCEPT !.start = "failed", !.db = "disconnected",
                        !.exitCode = 1]
  /\ process' = "exited"
  /\ UNCHANGED <<templates, calls, saves, clock, schema, updates, http>>

\* stop() is called, by a SIGTERM or SIGINT handler (signal) or by a holder
\* of the exported application: with this.server null it resolves at once,
\* otherwise server.close(callback) stops the server from accepting
AppStop(signal) ==
  /\ process = "running"
  /\ app.stop = "idle"
  /\ app' = IF app.server = "null"
              THEN [app EXCEPT !.stop = "resolved", !.signal = signal]
            ELSE [app EXCEPT !.stop = "server", !.signal = signal,
                             !.server = "closing"]
  /\ UNCHANGED <<templates, calls, saves, process, clock, schema, updates,
                 http>>

\* no connection is left: the server is closed and the callback of
\* server.close calls mongoose.connection.close(callback)
AppServerClosed ==
  /\ process = "running"
  /\ app.stop = "server"
  /\ http.stage = "idle"
  /\ app' = [app EXCEPT !.stop = "db", !.server = "closed",
                        !.db = "closing", !.closed = Append(@, "server")]
  /\ UNCHANGED <<templates, calls, saves, process, clock, schema, updates,
                 http>>

\* mongoose (up to 6) closes the connection and calls the callback, which
\* resolves the promise of stop()
AppDbClosed ==
  /\ process = "running"
  /\ app.stop = "db"
  /\ app' = [app EXCEPT !.stop = "resolved", !.db = "closed",
                        !.closed = Append(@, "db")]
  /\ UNCHANGED <<templates, calls, saves, process, clock, schema, updates,
                 http>>

\* mongoose (7 and later) rejects a callback argument: the promise of
\* close() rejects, nothing handles it, the 'unhandledRejection' handler
\* calls process.exit(1)
AppDbCloseRejects ==
  /\ process = "running"
  /\ app.stop = "db"
  /\ app' = [app EXCEPT !.exitCode = 1]
  /\ process' = "exited"
  /\ UNCHANGED <<templates, calls, saves, clock, schema, updates, http>>

\* the signal handler after its await app.stop(): process.exit(0)
AppSignalExit ==
  /\ process = "running"
  /\ app.stop = "resolved"
  /\ app.signal
  /\ app' = [app EXCEPT !.exitCode = 0]
  /\ process' = "exited"
  /\ UNCHANGED <<templates, calls, saves, clock, schema, updates, http>>

AppInit ==
  /\ templates = InitialTemplates
  /\ calls = [c \in CallIds |-> Idle]
  /\ saves = {}
  /\ updates = {}
  /\ http = NoRequest
  /\ process = "running"
  /\ clock = 0
  /\ schema = SchemaIdle
  /\ app = NotStarted

AppNext ==
  \/ AppStart
  \/ AppListen
  \/ AppConnectFails
  \/ AppServerError
  \/ \E signal \in BOOLEAN : AppStop(signal)
  \/ AppServerClosed
  \/ AppDbClosed
  \/ AppDbCloseRejects
  \/ AppSignalExit
  \/ \E page \in Pages, limit \in Limits : ListRequest(page, limit)
  \/ \E c \in CallIds : ControllerGetAllTemplates(c)
  \/ \E c \in CallIds : ListFind(c)
  \/ \E c \in CallIds : ListCount(c)
  \/ \E c \in CallIds : ListReturn(c)
  \/ ControllerRespond
  \/ RequestDone

AppSpec == AppInit /\ [][AppNext]_vars

(***************************************************************************)
(* The error handling chain on its own: errorLogger, then errorHandler, on *)
(* the errors that reach next(error), under each NODE_ENV.                  *)
(***************************************************************************)
Envs == {"development", "production", "test", ""}

Err(name, message) ==
  [NoThrown EXCEPT !.name = name, !.message = message,
                   !.stack = name \o ": " \o message \o "\n    at ..."]

\* the errors of Mongoose, of the MongoDB driver, of jsonwebtoken, of this
\* service (AppError, TemplateError, DockerError), of body-parser (a
\* SyntaxError with a statusCode), and errors of no recognised kind
Errors ==
  {[Err("ValidationError", "Template validation failed")
      EXCEPT !.errors = <<"createdBy">>],
   [Err("ValidationError", "Template validation failed")
      EXCEPT !.errors = <<"name", "createdBy">>],
   Err("CastError", "Cast to ObjectId failed"),
   [Err("MongoServerError", "E11000 duplicate key error")
      EXCEPT !.code = 11000, !.keyValue = <<"name", "nginx">>],
   Err("JsonWebTokenError", "jwt malformed"),
   Err("TokenExpiredError", "jwt expired"),
   Err("NotBeforeError", "jwt not active"),
   [Err("AppError", "Forbidden") EXCEPT !.statusCode = 403],
   [Err("AppError", "Quota exceeded")
      EXCEPT !.statusCode = 429, !.details = <<"10 per hour">>],
   [Err("SyntaxError", "Unexpected token } in JSON at position 7")
      EXCEPT !.statusCode = 400],
   Err("TemplateError", "Template not found"),
   [Err("TemplateError", "Variable validation failed")
      EXCEPT !.details = <<"Required variable 'image' is missing">>],
   Err("DockerError", "registry timeout"),
   Err("DockerError", ""),
   Err("Error", "connect ECONNREFUSED 10.0.0.5:27017"),
   Err("TypeError", "Cannot read properties of undefined"),
   [Err("MongoServerError", "not primary") EXCEPT !.code = 10107]}

ErrorInit ==
  /\ templates = InitialTemplates
  /\ calls = [c \in CallIds |-> Idle]
  /\ saves = {}
  /\ updates = {}
  /\ process = "running"
  /\ clock = 0
  /\ schema = SchemaIdle
  /\ \E env \in Envs : app = [Serving EXCEPT !.env = env]
  /\ \E error \in Errors :
       http = [NoRequest EXCEPT !.stage = "error", !.route = "error",
                               !.error = error]

\* errorLogger: logs the error and the request, then next(error)
ErrorLogger ==
  /\ process = "running"
  /\ http.stage = "error"
  /\ http' = [http EXCEPT !.stage = "logged"]
  /\ UNCHANGED <<templates, calls, saves, process, clock, schema, updates,
                 app>>

\* errorHandler: res.status(statusCode).json(response), once
ErrorHandler ==
  LET response == errorHandler(http.error) IN
  /\ process = "running"
  /\ http.stage = "logged"
  /\ http' = [http EXCEPT !.stage = "answered",
                          !.status = response.status,
                          !.message = response.message,
                          !.details = response.details,
                          !.stack = ResponseStack(http.error, app.env),
                          !.sent = @ + 1]
  /\ UNCHANGED <<templates, calls, saves, process, clock, schema, updates,
                 app>>

ErrorNext == ErrorLogger \/ ErrorHandler \/ RequestDone

ErrorSpec == ErrorInit /\ [][ErrorNext]_vars

(***************************************************************************)
(* The Schema Validator on its own: variable lists and variable maps drawn *)
(* from a catalogue of VariableSpecs, one per kind of constraint.          *)
(***************************************************************************)
\* longest variable list drawn
MaxVars == 2

With(field, value) == [NoValidation EXCEPT ![field] = value]

Catalogue ==
  << ImageVar,
     TagVar,
     Variable("port", "number", FALSE, Unset,
              [NoValidation EXCEPT !.minimum = Some(1024),
                                   !.maximum = Some(65535)]),
     Variable("retries", "number", TRUE, Some(Num(0)),
              [NoValidation EXCEPT !.minimum = Some(0),
                                   !.maximum = Some(80)]),
     Variable("slug", "string", FALSE, Unset,
              With("pattern", Some(PatternSearch))),
     Variable("word", "string", TRUE, Unset,
              With("pattern", Some(PatternAnchored))),
     Variable("broken", "string", FALSE, Unset,
              With("pattern", Some(PatternBroken))),
     Variable("code", "string", FALSE, Unset,
              [NoValidation EXCEPT !.minLength = Some(3),
                                   !.maxLength = Some(5)]),
     Variable("blank", "string", FALSE, Unset, With("maxLength", Some(0))),
     Variable("env", "string", FALSE, Unset,
              With("enum", Some(<<"nginx", "latest">>))),
     Variable("debug", "boolean", TRUE, Some(Bool(FALSE)), NoValidation),
     Variable("hosts", "array", FALSE, Unset, NoValidation),
     Variable("labels", "object", FALSE, Unset, NoValidation) >>

\* the values a caller sends for a variable of a type: right ones, wrong
\* ones and ones of another type
Candidates(type) ==
  CASE type = "string" ->
         {Str("nginx"), Str("v1"), Str(""), Str("latest"), Num(80)}
    [] type = "number" ->
         {Num(80), Num(0), Num(1024), Num(-1), NaNValue, Str("nginx")}
    [] type = "boolean" -> {Bool(TRUE), Bool(FALSE), Num(0), Null}
    [] type = "array" -> {EmptyArray, EmptyObject, Null}
    [] type = "object" -> {EmptyObject, EmptyArray, Null, Str("nginx")}

\* the variable lists: up to MaxVars catalogue entries, in catalogue order
RECURSIVE SpecLists(_, _)
SpecLists(from, len) ==
  IF len = 0 \/ from > Len(Catalogue) THEN {<<>>}
  ELSE SpecLists(from + 1, len)
       \cup {<<Catalogue[from]>> \o rest : rest \in SpecLists(from + 1, len - 1)}

\* the variable maps over the names of a list: any subset of the names
RECURSIVE MapsOver(_)
MapsOver(specs) ==
  IF specs = <<>> THEN {EmptyMap}
  ELSE LET rest == MapsOver(Tail(specs)) IN
       rest \cup {Extend(map, Head(specs).name, value) :
                    map \in rest, value \in Candidates(Head(specs).type)}

SchemaInit ==
  /\ templates = InitialTemplates
  /\ calls = [c \in CallIds |-> Idle]
  /\ saves = {}
  /\ updates = {}
  /\ http = NoRequest
  /\ process = "running"
  /\ clock = 0
  /\ app = Serving
  /\ \E specs \in SpecLists(1, MaxVars) :
       \E variables \in MapsOver(specs) :
         schema = [SchemaIdle EXCEPT !.pc = "input", !.specs = specs,
                                     !.variables = variables]

\* validateTemplate's variable checks on the drawn input
SchemaValidate ==
  /\ schema.pc = "input"
  /\ schema' = [schema EXCEPT
       !.pc = "validated",
       !.report = VariableChecks(schema.specs, schema.variables)]
  /\ UNCHANGED <<templates, calls, saves, process, clock, updates, http, app>>

\* generateDockerCompose's variable check on the drawn input
SchemaRequired ==
  /\ schema.pc = "input"
  /\ schema' = [schema EXCEPT
       !.pc = "required",
       !.errors = validateTemplateVariables(schema.specs, schema.variables)]
  /\ UNCHANGED <<templates, calls, saves, process, clock, updates, http, app>>

SchemaNext == SchemaValidate \/ SchemaRequired

SchemaSpec == SchemaInit /\ [][SchemaNext]_vars

(***************************************************************************)
(* Properties.                                                             *)
(***************************************************************************)
\* a generate call that has run its checks
Generated(c) ==
  calls[c].op = "generate" /\ calls[c].pc \in {"validated", "returned", "failed"}

\* the required variables of a template that a map does not hold
MissingRequired(template, variables) ==
  {template.variables[i].name : i \in
     {j \in 1..Len(template.variables) :
        /\ template.variables[j].required
        /\ template.variables[j].name \notin DOMAIN variables}}

Range(seq) == {seq[i] : i \in 1..Len(seq)}

InvalidPresent(template, variables) ==
  {i \in 1..Len(template.variables) :
     /\ template.variables[i].name \in DOMAIN variables
     /\ ~validateVariable(template.variables[i],
                          variables[template.variables[i].name]).isValid}

\* C2: generate returns text only for a map the Schema Validator accepts: no
\* call returns text while a variable present in the map violates its
\* declared type or constraints.
C2_GenerateOnlyOnValidVariables ==
  \A c \in CallIds :
    (calls[c].op = "generate" /\ calls[c].returned) =>
      InvalidPresent(calls[c].template, calls[c].variables) = {}

\* the placeholders of a body
Placeholders(templateContent) ==
  {i \in 1..Len(templateContent) : templateContent[i].k = "ph"}

\* the variables of a template with a name
Declared(template, name) ==
  {i \in 1..Len(template.variables) : template.variables[i].name = name}

\* C3: in a render of generate, a placeholder whose variable is missing from
\* the map and declares a defaultValue is replaced by the default.
C3_DefaultsOverlaid ==
  \A c \in CallIds :
    LET call == calls[c] IN
    (call.op = "generate" /\ call.pieces # <<>>) =>
      \A i \in Placeholders(call.template.templateContent) :
        \A j \in Declared(call.template,
                          call.template.templateContent[i].s) :
          LET variable == call.template.variables[j] IN
          (variable.name \notin DOMAIN call.variables
           /\ IsSet(variable.defaultValue)) =>
            call.pieces[i] = escapeExpression(Get(variable.defaultValue))

\* C4: a render leaves a placeholder whose name the template does not
\* declare as the literal text {{name}}, and raises no error for it.
C4_UnknownPlaceholderLiteral ==
  \A c \in CallIds :
    LET call == calls[c] IN
    (call.op = "generate" /\ call.pieces # <<>>) =>
      \A i \in Placeholders(call.template.templateContent) :
        LET name == call.template.templateContent[i].s IN
        Declared(call.template, name) = {} =>
          call.pieces[i] = "{{" \o name \o "}}"

\* the errors of a type in a report
ErrorsOf(report, type) ==
  {i \in 1..Len(report.errors) : report.errors[i].type = type}

\* the schema as a template
SchemaTemplate == [variables |-> schema.specs]

FullMatch(pattern, s) ==
  LET cs == Chars(s) IN
  Len(cs) > 0 /\ \A i \in 1..Len(cs) : cs[i] \in Lower

\* a value satisfies the declared type and every declared constraint
Satisfies(variable, value) ==
  LET validation == variable.validation IN
  CASE variable.type = "string" ->
         /\ value.t = "string"
         /\ IsSet(validation.pattern) =>
              /\ ~RegExpThrows(Get(validation.pattern))
              /\ FullMatch(Get(validation.pattern), value.s)
         /\ IsSet(validation.minLength) =>
              Len(Chars(value.s)) >= Get(validation.minLength)
         /\ IsSet(validation.maxLength) =>
              Len(Chars(value.s)) <= Get(validation.maxLength)
         /\ IsSet(validation.enum) =>
              value.s \in Range(Get(validation.enum))
    [] variable.type = "number" ->
         /\ value.t = "number"
         /\ IsSet(validation.minimum) => value.n >= Get(validation.minimum)
         /\ IsSet(validation.maximum) => value.n <= Get(validation.maximum)
    [] variable.type = "boolean" -> value.t = "boolean"
    [] variable.type = "array" -> value.t = "array"
    [] variable.type = "object" -> value.t = "object"

\* C6: when the variable checks report isValid = true, every required
\* variable is present and every present variable has a value of its
\* declared type that meets all its declared constraints.
C6_ValidMeansSatisfied ==
  (schema.pc = "validated" /\ ~schema.report.threw /\ schema.report.isValid) =>
    /\ MissingRequired(SchemaTemplate, schema.variables) = {}
    /\ \A j \in 1..Len(schema.specs) :
         schema.specs[j].name \in DOMAIN schema.variables =>
           Satisfies(schema.specs[j], schema.variables[schema.specs[j].name])

\* C7: the variable checks of validateTemplate never raise an exception:
\* every violation is data in the report.
C7_ChecksNeverThrow ==
  schema.pc = "validated" => ~schema.report.threw

\* a generate call whose rendered text went through the Output Validator
OutputValidated(c) ==
  calls[c].op = "generate" /\ calls[c].yamlRan

\* the call failed with the output-structure error
OutputRejected(c) ==
  /\ calls[c].pc = "failed"
  /\ calls[c].error.message = "Invalid Docker Compose YAML"

\* C8 as stated: the text is rejected iff it does not parse, or its root is
\* not a mapping, or the root mapping has neither a version nor a services
\* key, whatever the values of the keys.
C8_RejectedIffKeysAbsent ==
  \A c \in CallIds :
    OutputValidated(c) =>
      LET parsed == yamlLoad(calls[c].text) IN
      OutputRejected(c) <=>
        \/ ~parsed.ok
        \/ parsed.kind # "mapping"
        \/ (parsed.version = Unset /\ parsed.services = Unset)

\* the values JavaScript takes for false
Falsy == {Null, Num(0), Str(""), NaNValue, Bool(FALSE)}

\* C8 amended: the text is rejected iff it does not parse, or its root is
\* not a mapping, or neither the version key nor the services key of the
\* root mapping holds a truthy value (a key holding null, false, 0, NaN or
\* '' counts as missing).
C8_RejectedIffKeysFalsy ==
  \A c \in CallIds :
    OutputValidated(c) =>
      LET parsed == yamlLoad(calls[c].text) IN
      OutputRejected(c) <=>
        \/ ~parsed.ok
        \/ parsed.kind # "mapping"
        \/ (parsed.version \subseteq Falsy /\ parsed.services \subseteq Falsy)

\* C8 witness: a document whose version key holds null was rejected
C8_Witness ==
  \E c \in CallIds :
    /\ OutputValidated(c) /\ OutputRejected(c)
    /\ yamlLoad(calls[c].text).kind = "mapping"
    /\ yamlLoad(calls[c].text).version = Some(Null)

\* C9: whatever becomes of the usage-counter update, the call keeps the
\* text it returned and the process goes on serving requests.
C9_UpdateOutcomeHarmless ==
  /\ process = "running"
  /\ \A c \in CallIds :
       (calls[c].op = "generate" /\ calls[c].returned) =>
         calls[c].result = calls[c].text

\* C10: incrementDownloadCount is invoked exactly once by a generate call
\* that returns text, after the Output Validator accepted the text, and not
\* at all by a call that has not returned or has failed.
C10_IncrementOncePerSuccess ==
  \A c \in CallIds :
    calls[c].op = "generate" =>
      /\ calls[c].increments = IF calls[c].pc = "returned" THEN 1 ELSE 0
      /\ calls[c].increments > 0 =>
           /\ calls[c].yamlRan
           /\ validateDockerComposeYaml(calls[c].text).ok
           /\ calls[c].result = calls[c].text
      /\ calls[c].pc = "failed" => ~calls[c].returned

\* C10 witness: a generate call has returned text and invoked the update
C10_Witness ==
  \E c \in CallIds :
    /\ calls[c].op = "generate" /\ calls[c].pc = "returned"
    /\ calls[c].increments = 1
    /\ calls[c].template.usage.downloadCount = 1

\* C11: across the service operations, the usage counters of a stored
\* template (usage.downloadCount, usage.lastUsed) change only by the
\* usage-counter update of a generate call that returned text: a step that
\* changes them settles the save() such a call started.
C11_UsageOnlyByGenerate ==
  [][\A id \in TemplateIds :
       templates'[id].usage # templates[id].usage =>
         \E save \in saves :
           /\ save.id = id
           /\ saves' = saves \ {save}
           /\ templates'[id].usage = save.usage]_vars

\* C12: a template stored through createTemplate, or whose templateContent
\* updateTemplate has just written, holds no malformed placeholder (no
\* unterminated {{): validateTemplateContent rejected such content, and so
\* a render of the stored template raises no syntax error.
C12_StoredContentWellFormed ==
  \A c \in CallIds :
    LET call == calls[c] IN
    (call.op \in {"create", "update"} /\ call.pc = "returned"
     /\ call.doc.exists) =>
      ~ParseThrows(call.doc.templateContent)

\* C13: the answer to a POST /templates/{id}/generate whose id matches no
\* template, or a template that is private or inactive, has status 404.
C13_GenerateHiddenIs404 ==
  (/\ http.stage = "answered"
   /\ http.route = "generate"
   /\ http.id # 0
   /\ NotAccessible(http.served.template)) =>
    http.status = 404

\* the outcome of generateDockerCompose, validateTemplate or getTemplateById
\* for an id no document has: null from getTemplateById, the not-found
\* TemplateError from the others
NotFoundOutcome(call) ==
  IF call.op = "get"
    THEN [call EXCEPT !.pc = "returned", !.returned = TRUE]
  ELSE Fail(call, "Template not found or not accessible", <<>>)

\* the call without what the caller does not see: the document it loaded
Visible(call) == [call EXCEPT !.template = NoTemplate, !.id = 0]

\* C14: for generateDockerCompose, validateTemplate and getTemplateById the
\* step that answers a call on a template that is private or inactive gives
\* the outcome of a call on an id no document has, for every variable map,
\* and changes nothing stored: no template, no pending counter update, not
\* the clock.
C14_HiddenLikeMissing ==
  [][\A c \in CallIds :
       (/\ calls[c].pc = "found"
        /\ calls'[c].pc # "found"
        /\ calls[c].op \in {"generate", "validate", "get"}
        /\ NotAccessible(calls[c].template)) =>
         /\ Visible(calls'[c]) = NotFoundOutcome(Visible(calls[c]))
         /\ UNCHANGED <<templates, saves, updates, clock, process>>]_vars

\* C14 witness: a call on a soft-deleted template, with variables that fit
\* the template, has been answered as not found
C14_Witness ==
  \E c \in CallIds :
    /\ calls[c].op \in {"generate", "validate"}
    /\ calls[c].template.exists
    /\ calls[c].template.isPublic
    /\ ~calls[c].template.isActive
    /\ calls[c].variables # EmptyMap
    /\ calls[c].pc = "failed"
    /\ calls[c].error.message = "Template not found or not accessible"

\* C15: no GET /api/templates/:id request ends without a response: its
\* socket is never closed unanswered, and the answer has status 400 when
\* :id is no ObjectId and status 404 when :id is well formed and no
\* accessible template has that id.
C15_GetByIdAnswered ==
  http.route = "get" =>
    /\ http.stage # "closed"
    /\ http.stage = "answered" =>
         /\ http.id = 0 => http.status = 400
         /\ (http.id # 0 /\ NotAccessible(http.served.template)) =>
              http.status = 404

\* the render or the Output Validator fails for a template and a map
PassFails(template, variables) ==
  \/ CompileThrows(template.templateContent)
  \/ ParseThrows(template.templateContent)
  \/ ~validateDockerComposeYaml(
        Render(template.templateContent, variables)).ok

\* C16: validateTemplate attempts the render and Output Validator pass iff
\* the variable checks produced no error.  A failure of the pass is not
\* thrown: the report returned holds exactly one template_compilation error
\* and isValid = false.  When the variable checks fail, no render is
\* attempted and the report is theirs.
C16_RenderPassOnlyWhenValid ==
  \A c \in CallIds :
    LET call == calls[c]
        validation == VariableChecks(call.template.variables, call.variables)
        compilation == ErrorsOf(call.report, "template_compilation")
    IN
    (call.op = "validate" /\ call.checked /\ ~validation.threw) =>
      /\ call.pc = "returned"
      /\ call.rendered <=> validation.isValid
      /\ ~validation.isValid =>
           /\ call.report = validation
           /\ compilation = {}
           /\ ~call.yamlRan
      /\ validation.isValid =>
           /\ Cardinality(compilation) =
                IF PassFails(call.template, call.variables) THEN 1 ELSE 0
           /\ call.report.isValid =
                ~PassFails(call.template, call.variables)
           /\ Len(call.report.errors) = Cardinality(compilation)

\* C16 witness: the variable checks passed, the Output Validator refused
\* the rendered text, and the report holds the template_compilation error
C16_Witness ==
  \E c \in CallIds :
    /\ calls[c].op = "validate" /\ calls[c].pc = "returned"
    /\ calls[c].rendered /\ calls[c].yamlRan
    /\ ~calls[c].report.isValid
    /\ ErrorsOf(calls[c].report, "template_compilation") # {}

\* C17: validateTemplate is inspection-only: no step of a validate call,
\* whatever the template, the map and the report, changes a stored template
\* (usage.downloadCount and usage.lastUsed included) or starts an update of
\* the usage counters.
C17_ValidateInspectsOnly ==
  [][\A c \in CallIds :
       (calls'[c].op = "validate" /\ calls'[c] # calls[c]) =>
         /\ UNCHANGED <<templates, saves, updates>>
         /\ calls'[c].increments = 0]_vars

\* C17 witness: a validate call has returned a valid report on a template
\* it rendered; the stored template is the one it loaded and no update is
\* pending
C17_Witness ==
  \E c \in CallIds :
    /\ calls[c].op = "validate" /\ calls[c].pc = "returned"
    /\ calls[c].rendered /\ calls[c].report.isValid
    /\ templates[calls[c].id] = calls[c].template
    /\ saves = {} /\ updates = {}

\* C18: every report validateTemplate returns has isValid = true iff its
\* errors list is empty, whatever the types of the errors.
C18_ValidIffNoErrors ==
  \A c \in CallIds :
    (calls[c].op = "validate" /\ calls[c].pc = "returned") =>
      (calls[c].report.isValid <=> Len(calls[c].report.errors) = 0)

\* C18 witness: a report whose only error is the template_compilation
\* error of a body the parser refuses
C18_Witness ==
  \E c \in CallIds :
    /\ calls[c].op = "validate" /\ calls[c].pc = "returned"
    /\ ParseThrows(calls[c].template.templateContent)
    /\ Len(calls[c].report.errors) = 1
    /\ calls[c].report.errors[1].type = "template_compilation"
    /\ ~calls[c].report.isValid

\* C19: when the Output Validator rejects the rendered text, the generate
\* call fails with the output-structure error and the rendered text reaches
\* the caller neither as the result nor as a part of that error; a call
\* that returns text returns text the Output Validator accepted.
C19_RejectedTextNotReturned ==
  \A c \in CallIds :
    LET call == calls[c] IN
    /\ (OutputValidated(c) /\ ~validateDockerComposeYaml(call.text).ok) =>
         /\ OutputRejected(c)
         /\ ~call.returned /\ call.result = ""
         /\ call.text \notin Range(call.error.details)
    /\ (call.op = "generate" /\ call.returned) =>
         /\ call.result = call.text
         /\ validateDockerComposeYaml(call.text).ok

\* the step is a deleteTemplate call that succeeds
Deletes(c) ==
  calls[c].pc = "idle" /\ calls'[c].op = "delete" /\ calls'[c].pc = "returned"

\* the step answers a read of a template that was inactive when loaded:
\* null from getTemplateById, not found from generate and validate
InactiveAnswered(c) ==
  (/\ calls[c].pc = "found"
   /\ calls'[c].pc # "found"
   /\ calls[c].template.exists
   /\ ~calls[c].template.isActive) =>
    CASE calls[c].op = "get" ->
           calls'[c].pc = "returned" /\ ~calls'[c].doc.exists
      [] calls[c].op \in {"generate", "validate"} ->
           /\ calls'[c].pc = "failed"
           /\ calls'[c].error.message = "Template not found or not accessible"
      [] OTHER -> TRUE

NumberOk(variable, value) ==
  /\ value.t = "number"
  /\ IsSet(variable.validation.minimum) =>
       value.n >= Get(variable.validation.minimum)
  /\ IsSet(variable.validation.maximum) =>
       value.n <= Get(variable.validation.maximum)

\* C21: for a variable of type number, validateVariable accepts a value iff
\* it is a number other than NaN, not below the minimum when one is set and
\* not above the maximum when one is set: a value equal to a bound is
\* accepted, a bound of 0 is enforced, and 80 is refused for 1024..65535.
C21_NumberBoundsInclusive ==
  (schema.pc = "validated" /\ ~schema.report.threw) =>
    \A j \in 1..Len(schema.specs) :
      LET variable == schema.specs[j] IN
      (variable.type = "number" /\ variable.name \in DOMAIN schema.variables)
        => ((\E i \in ErrorsOf(schema.report, "invalid_variable") :
               schema.report.errors[i].variable = variable.name)
            <=> ~NumberOk(variable, schema.variables[variable.name]))

\* C21 witness: 80 was refused for the bounds 1024..65535 and 0 accepted for
\* the bounds 0..80
C21_Witness ==
  /\ schema.pc = "validated" /\ ~schema.report.threw
  /\ Len(schema.specs) = 2
  /\ schema.specs[1].name = "port" /\ schema.specs[2].name = "retries"
  /\ DOMAIN schema.variables = {"port", "retries"}
  /\ schema.variables["port"] = Num(80)
  /\ schema.variables["retries"] = Num(0)
  /\ Len(schema.report.errors) = 1
  /\ schema.report.errors[1].variable = "port"

\* C22: a POST /api/templates request that does not carry the verified token
\* of an existing active user (no token, a token jwt.verify rejects, a token
\* of a missing or inactive user) never reaches the createTemplate handler,
\* creates no template, and is answered 401.
C22_UnauthenticatedIs401 ==
  (http.route = "create" /\ http.token # "active") =>
    /\ http.stage \notin {"controller", "awaiting"}
    /\ http.stage = "answered" =>
         (http.status = 401 /\ http.served.op # "create")

\* C27: createTemplate persists nothing unless the content validates and the
\* save succeeds: when validateTemplateContent or the save fails the call
\* fails, the collection is as before and no templatesCreated increment is
\* issued; otherwise exactly one template is stored, at an id no document
\* had, and exactly one new increment is issued with it.
C27_CreateAllOrNothing ==
  [][\A c \in CallIds :
       (http.stage = "controller" /\ http.route = "create"
          /\ calls'[c].op = "create") =>
         LET data == http.data
             id == calls'[c].id
             refused == \/ ~validateTemplateContent(data.templateContent).ok
                        \/ SaveFails(data)
         IN
         /\ (calls'[c].pc = "failed") <=> refused
         /\ refused => (templates' = templates /\ updates' = updates)
         /\ ~refused =>
              /\ calls'[c].pc = "returned"
              /\ ~templates[id].exists
              /\ templates'[id].exists
              /\ templates'[id].templateContent = Get(data.templateContent)
              /\ \A other \in TemplateIds \ {id} :
                   templates'[other] = templates[other]
              /\ \E increment \in updates' \ updates :
                   /\ increment.kind = "user"
                   /\ updates' = updates \cup {increment}]_vars

\* the save of a template without createdBy has failed: the call has
\* failed, nothing is stored and no increment is pending
C27_Witness ==
  /\ http.stage = "awaiting"
  /\ http.route = "create"
  /\ calls[http.call].pc = "failed"
  /\ calls[http.call].error.message = "Template validation failed"
  /\ templates = InitialTemplates
  /\ updates = {}

\* C23: the page and the limit GET /api/templates hands to getAllTemplates,
\* and the ones it reports, are integers with page >= 1 and limit between 1
\* and 100; absent parameters count as page 1 and limit 10.
C23_PageSizeAtMost100 ==
  \A c \in CallIds :
    calls[c].op = "list" =>
      LET list == calls[c].list IN
      /\ list.page >= 1
      /\ list.limit \in 1..MaxPageSize
      /\ ~IsSet(http.query.page) => list.page = DefaultPage
      /\ ~IsSet(http.query.limit) => list.limit = DefaultLimit
      /\ calls[c].pc = "returned" =>
           list.pagination.limit \in 1..MaxPageSize

\* what the sorted result holds from position skip + 1 on, at most limit
\* documents
After(sorted, skip, limit) ==
  [i \in 1..Min2(limit, IF Len(sorted) > skip THEN Len(sorted) - skip ELSE 0)
     |-> sorted[skip + i]]

\* C24: the pagination object of getAllTemplates, for page >= 1, limit >= 1
\* and the total the count returned: pages is the least number of pages of
\* limit documents that hold total documents, hasPrev holds iff page > 1,
\* hasNext holds iff page * limit < total, which is iff page < pages; the
\* documents returned are the matching ones after the first
\* (page - 1) * limit.
C24_PaginationArithmetic ==
  \A c \in CallIds :
    (calls[c].op = "list" /\ calls[c].pc = "returned") =>
      LET list == calls[c].list
          pagination == list.pagination
      IN
      /\ pagination.page = list.page
      /\ pagination.limit = list.limit
      /\ pagination.total = list.total
      /\ pagination.pages * list.limit >= list.total
      /\ pagination.pages >= 0
      /\ pagination.pages > 0 =>
           (pagination.pages - 1) * list.limit < list.total
      /\ pagination.hasPrev <=> list.page > 1
      /\ pagination.hasNext <=> list.page * list.limit < list.total
      /\ pagination.hasNext <=> list.page < pagination.pages
      /\ list.skipped = (list.page - 1) * list.limit
      /\ list.templates =
           After(SortDesc(Matching(templates)), list.skipped, list.limit)

\* page 2 of 3 with two documents a page: five match, the two after the
\* first two are returned, a next and a previous page exist
C24_Witness ==
  \E c \in CallIds :
    /\ calls[c].op = "list"
    /\ calls[c].pc = "returned"
    /\ calls[c].list.page = 2
    /\ calls[c].list.limit = 2
    /\ calls[c].list.total = 5
    /\ calls[c].list.templates = <<3, 2>>
    /\ calls[c].list.pagination.pages = 3
    /\ calls[c].list.pagination.hasNext
    /\ calls[c].list.pagination.hasPrev

\* C25: whatever the interleaving of generateDockerCompose calls (each
\* saving its own copy after incrementDownloadCount) and getTemplateById
\* reads (each issuing an atomic $inc), the stored usage.downloadCount of a
\* template never decreases.
C25_DownloadCountNeverDecreases ==
  [][\A id \in TemplateIds :
       (templates[id].exists /\ templates'[id].exists) =>
         templates'[id].usage.downloadCount
           >= templates[id].usage.downloadCount]_vars

\* C26: a template that deleteTemplate has deactivated stays as it is: no
\* later operation, updateTemplate with arbitrary data included, makes it
\* active again or modifies it.
C26_DeletedStaysDeleted ==
  [][\A id \in TemplateIds :
       (templates[id].exists /\ ~templates[id].isActive) =>
         /\ ~templates'[id].isActive
         /\ (\E c \in CallIds : calls[c].pc = "idle"
                                 /\ calls'[c].op = "update")
              => templates'[id] = templates[id]]_vars

\* C28: the HTTP server of the Application listens only once start() has
\* seen the MongoDB connection established; when connecting fails the
\* process exits with code 1 and the server has never listened.
C28_ListenAfterConnect ==
  /\ app.server # "null" => (app.start = "done" /\ app.db # "connecting"
                               /\ app.db # "disconnected")
  /\ app.start = "failed" =>
       (process = "exited" /\ app.exitCode = 1 /\ app.server = "null")

\* the server listens, on a connected database
C28_Witness ==
  /\ app.start = "done"
  /\ app.server = "listening"
  /\ app.db = "connected"
  /\ app.stop = "idle"

\* C29: when stop() has resolved, the HTTP server and the MongoDB connection
\* are both closed (neither is open or being opened), and where both were
\* open the server was closed first.
C29_StopClosesBoth ==
  app.stop = "resolved" =>
    /\ app.server \in {"null", "closed"}
    /\ app.db \in {"disconnected", "closed"}
    /\ app.closed \in {<<>>, <<"server", "db">>}

\* an error no branch of errorHandler recognises
Unrecognised(error) ==
  /\ error.name \notin {"ValidationError", "CastError", "JsonWebTokenError",
                        "TokenExpiredError", "TemplateError", "DockerError"}
  /\ error.code # 11000
  /\ error.statusCode = 0

\* C30: errorHandler answers every error with one response; an error of no
\* recognised kind gets status 500, the message 'Internal Server Error' and
\* no details, so that its own message is not in the response; the response
\* holds the stack exactly when NODE_ENV is 'development'.
C30_ErrorAnsweredOnce ==
  (http.route = "error" /\ http.stage = "answered") =>
    /\ http.sent = 1
    /\ http.status \in 400..599
    /\ Unrecognised(http.error) =>
         /\ http.status = 500
         /\ http.message = "Internal Server Error"
         /\ http.details = <<>>
         /\ http.message # http.error.message
    /\ IsSet(http.stack) <=> app.env = "development"
    /\ IsSet(http.stack) => Get(http.stack) = http.error.stack

\* a refused database connection has been answered in production: 500, no
\* details, no stack
C30_Witness ==
  /\ http.route = "error"
  /\ http.stage = "answered"
  /\ http.error.name = "Error"
  /\ http.error.message = "connect ECONNREFUSED 10.0.0.5:27017"
  /\ app.env = "production"
  /\ http.status = 500
  /\ http.stack = Unset

\* every text handed to yaml.load is a document the model describes
TextsKnown ==
  \A c \in CallIds : calls[c].yamlRan => calls[c].text \in KnownTexts

====
